---------------------------- MODULE Spec2Model ----------------------------
(***************************************************************************)
(* A model of backend/app.py: the ServoController facade, the per-servo    *)
(* motion worker (_continuous_movement_worker), the periodic monitoring    *)
(* worker (_monitoring_worker) and the request handlers that drive them.   *)
(*                                                                         *)
(* Python objects that are shared by reference are kept in two heaps:      *)
(* pat (the pattern dicts) and thr (the threading.Thread objects).  The    *)
(* dict movement_patterns is an insertion-ordered sequence of              *)
(* <<servo id, pattern reference>> pairs, continuous_movement_threads maps *)
(* a servo id to a thread reference.  Every statement that reads or writes *)
(* shared state is a step of its thread; time.sleep and join(timeout) are  *)
(* points where any other thread may run.  A bus call made through         *)
(* packet_handler returns a nondeterministic result.                       *)
(***************************************************************************)
EXTENDS Integers, Sequences, FiniteSets, TLC

(***************************************************************************)
(* Bounds of the model.                                                    *)
(***************************************************************************)
NumServos == 2
MaxPatterns == 3
MaxThreads == 2
MaxRequests == 4
MaxStepsMotion == 1
MaxCycles == 3

(***************************************************************************)
(* Program constants.                                                      *)
(***************************************************************************)
health_check_interval == 20
max_consecutive_failures == 5
PosMax == 4095
PosCenter == 2048
SpeedMax == 1023
CwOffset == 1024
SpeedWordMax == 2047

Servos == 1..NumServos
PatIds == 1..MaxPatterns
ThreadIds == 1..MaxThreads
NoRef == 0
Absent == 0 - 99999

\* Positions a live position read (ReadPos) may return.
LivePositions == {500}

\* The movement configs a start request may carry: type, speed, the sweep
\* bounds, the angle constraints, and the requested number of cycles
\* (negative: no limit).
Config(ty, sp, lo, hi, en, amin, amax, cyc) ==
    [type |-> ty, speed |-> sp, min_position |-> lo, max_position |-> hi,
     ac_enabled |-> en, ac_min |-> amin, ac_max |-> amax, cycles |-> cyc,
     direction |-> Absent]

MotionConfigs ==
    {Config("sweep", PosMax, 0, PosMax, FALSE, Absent, Absent, Absent),
     Config("rotation", 100, Absent, Absent, FALSE, Absent, Absent, Absent)}

RotationConfigs == {cfg \in MotionConfigs : cfg.type = "rotation"}

\* rotations that say which way to turn: by "direction", by the sign of speed
DirectedRotations ==
    {[Config("rotation", sp, Absent, Absent, FALSE, Absent, Absent, Absent)
         EXCEPT !.direction = d] : sp \in {100, 0 - 100}, d \in {Absent, 1, 0 - 1}}

\* speeds a rotation may be asked for, within and beyond the 10-bit magnitude
WideSpeeds == {0 - 1500, 0 - 100, 0, 100, 1500}

WideRotations ==
    {Config("rotation", sp, Absent, Absent, FALSE, Absent, Absent, Absent) :
        sp \in WideSpeeds}

SweepBounds == {<<0, PosMax>>, <<1000, 3000>>}

\* angle limits a request may carry: nothing validates them
AngleLimitPairs == {<<1000, 3000>>, <<5000, 6000>>}

\* the highest id a servo can be given
MaxServoId == 253

\* ids a request may name, and ranges a discovery may probe
IdInputs == {0 - 1, 1, 2, 3, MaxServoId + 1}

DiscoverRanges == {<<1, 3>>, <<2, 2>>, <<3, 2>>}

\* the servo lists a group sync write may be given, repeats included
MaxBatch == 2

SyncBatches == UNION {[1..n -> Servos] : n \in 0..MaxBatch}

\* attempts of a group sync write
max_retries == 2

SweepConfigs ==
    {Config("sweep", 2000, b[1], b[2], en, a[1], a[2], cyc) :
        b \in SweepBounds, en \in BOOLEAN, a \in AngleLimitPairs, cyc \in {Absent, 1}}

\* the port and the baud rate a connect request names when it gives none
DefaultPorts == {"COM7"}

DefaultBaud == 1000000

\* connection_status as the module creates it and as /api/disconnect leaves it
NotConnected == [connected |-> FALSE, port |-> "", baudrate |-> 0]

VARIABLES
    is_connected,                 \* self.is_connected
    port_open,                    \* state of self.port_handler's serial port
    movement_patterns,            \* self.movement_patterns (ordered dict)
    continuous_movement_threads,  \* self.continuous_movement_threads
    pat,                          \* heap of pattern dicts
    thr,                          \* heap of worker Thread objects
    monitoring_active,            \* self.monitoring_active
    sup,                          \* the monitoring thread and its locals
    req,                          \* the request being handled and its locals
    inBus,                        \* threads inside a packet_handler call
    nreq,                         \* requests issued so far
    hist,                         \* what the requests have done so far:
                                  \*   pauseRet[id]: how the last pause(id) returned
                                  \*     ("none" once a later request names id)
                                  \*   stopped[id]: stop(id) or force_stop_all has
                                  \*     cleared running since the last start(id)
                                  \*   prevStop: the id the request before this
                                  \*     one stopped with success, or 0
                                  \*   ids: the ids of the servos when the last
                                  \*     change_servo_id began
    discovered_servos,            \* self.discovered_servos (its keys)
    eeprom_id,                    \* the servos on the bus: the id each answers to
    packet_handler,               \* self.packet_handler is not None
    connection_status,            \* the module's connection_status dict
    group_sync_writers,           \* the two group sync writers are not None
    group_sync_write_lock         \* self.group_sync_write_lock is held

vars == <<is_connected, port_open, movement_patterns, continuous_movement_threads,
          pat, thr, monitoring_active, sup, req, inBus, nreq, hist,
          discovered_servos, eeprom_id, packet_handler, connection_status, group_sync_writers, group_sync_write_lock>>

(***************************************************************************)
(* Heap records.                                                           *)
(***************************************************************************)
FreePat ==
    [used |-> FALSE, type |-> "none", speed |-> 0, running |-> FALSE,
     paused |-> FALSE, immediate_stop |-> FALSE, emergency_stop |-> FALSE,
     current_position |-> 0, direction |-> Absent, cycle_count |-> Absent,
     start_position |-> Absent, end_position |-> Absent,
     min_position |-> Absent, max_position |-> Absent,
     ac_enabled |-> FALSE, ac_min |-> Absent, ac_max |-> Absent,
     req_cycles |-> Absent]

FreeThr ==
    [pc |-> "free", servo_id |-> 0, pattern |-> NoRef, next_position |-> 0,
     step_count |-> 0, consecutive_failures |-> 0, wire |-> Absent,
     comm_result |-> "none"]

\* arg, found, data: a handler's further argument, its local collection and
\* the list it works through;
\* tx: the bus transactions the handler has issued, <<kind, id, answered>>;
\* result, error: what the handler answered for the servo, or as a whole
\* when it names none; success: the "success" entry of its reply;
\* errors: the list "errors" of get_servo_telemetry, by register;
\* calls: the strategy calls one run of the recovery ladder has made,
\* <<strategy, returned>>; hold: the position the handler's hold command
\* WritePosEx(pos, 0, 0) carried
IdleReq == [op |-> "none", pc |-> "idle", id |-> 0, pattern |-> NoRef,
            attempt |-> 0, result |-> "none", arg |-> 0, found |-> {},
            tx |-> {}, error |-> "none", success |-> FALSE, data |-> <<>>,
            errors |-> {}, calls |-> <<>>, hold |-> Absent]

\* repair: the ids the pass found running without a live thread when it
\* scanned the records
IdleSup == [pc |-> "none", active |-> <<>>, pattern |-> NoRef, repair |-> {}]

(***************************************************************************)
(* The ordered dict movement_patterns.                                     *)
(***************************************************************************)
Keys(d) == {d[i][1] : i \in 1..Len(d)}

HasKey(d, k) == k \in Keys(d)

\* d[k], NoRef when the key is missing
Get(d, k) ==
    IF HasKey(d, k)
    THEN LET i == CHOOSE j \in 1..Len(d) : d[j][1] = k IN d[i][2]
    ELSE NoRef

\* d[k] = v : an existing key keeps its place, a new key goes last
Put(d, k, v) ==
    IF HasKey(d, k)
    THEN [i \in 1..Len(d) |-> IF d[i][1] = k THEN <<k, v>> ELSE d[i]]
    ELSE Append(d, <<k, v>>)

\* del d[k]
Del(d, k) == SelectSeq(d, LAMBDA e : e[1] # k)

RECURSIVE SeqFilter(_, _)
\* the ids of s, in order, whose pattern is running
SeqFilter(d, heap) ==
    IF d = <<>> THEN <<>>
    ELSE LET rest == SeqFilter(Tail(d), heap)
         IN  IF heap[Head(d)[2]].running THEN <<Head(d)[1]>> \o rest ELSE rest

(***************************************************************************)
(* Threads.                                                                *)
(***************************************************************************)
\* threading.Thread.is_alive(): started and not yet finished
Alive(t) == t # NoRef /\ thr[t].pc \notin {"free", "dead"}

LiveWorkers(id) == {t \in ThreadIds : Alive(t) /\ thr[t].servo_id = id}

Min(a, b) == IF a < b THEN a ELSE b
Max(a, b) == IF a > b THEN a ELSE b

ValidPos(x) == x >= 0 /\ x <= PosMax

(***************************************************************************)
(* Setpoint computation.                                                   *)
(***************************************************************************)
\* pattern.get(key, default) for the integer fields
GetOr(v, default) == IF v = Absent THEN default ELSE v

\* _calculate_sweep_position: the target and the pattern after the call
\* (the call flips direction and counts a cycle at a boundary)
_calculate_sweep_position(p, current_pos) ==
    LET s0  == GetOr(p.start_position, 0)
        e0  == GetOr(p.end_position, PosMax)
        s1  == IF ValidPos(s0) THEN s0 ELSE 0
        e1  == IF ValidPos(e0) THEN e0 ELSE PosMax
        spd == IF p.speed < 0 THEN 100 ELSE p.speed
        d0  == GetOr(p.direction, 1)
        dir == IF d0 \in {1, 0 - 1} THEN d0 ELSE 1
        start_pos == IF s1 > e1 THEN e1 ELSE s1
        end_pos   == IF s1 > e1 THEN s1 ELSE e1
        cc  == GetOr(p.cycle_count, 0)
        res == IF dir = 1
               THEN IF current_pos >= end_pos
                    THEN [t |-> end_pos, d |-> 0 - 1, c |-> cc + 1, hit |-> TRUE]
                    ELSE [t |-> Min(end_pos, current_pos + spd), d |-> p.direction,
                          c |-> p.cycle_count, hit |-> FALSE]
               ELSE IF current_pos <= start_pos
                    THEN [t |-> start_pos, d |-> 1, c |-> cc + 1, hit |-> TRUE]
                    ELSE [t |-> Max(start_pos, current_pos - spd), d |-> p.direction,
                          c |-> p.cycle_count, hit |-> FALSE]
    IN  [target  |-> Max(0, Min(PosMax, res.t)),
         pattern |-> [p EXCEPT !.direction = res.d, !.cycle_count = res.c]]

\* _calculate_next_position
_calculate_next_position(p) ==
    LET cp == IF ValidPos(p.current_position) THEN p.current_position ELSE PosCenter
    IN  IF p.type = "sweep" THEN _calculate_sweep_position(p, cp)
        ELSE [target |-> cp, pattern |-> p]

\* the angle-constraint clamp of the worker loop
ApplyAngleConstraints(p, next_position) ==
    IF p.ac_enabled /\ p.ac_min # Absent /\ p.ac_max # Absent
    THEN IF next_position < p.ac_min
         THEN [target  |-> p.ac_min,
               pattern |-> IF p.type = "sweep"
                           THEN [p EXCEPT !.direction = 0 - p.direction] ELSE p]
         ELSE IF next_position > p.ac_max
         THEN [target  |-> p.ac_max,
               pattern |-> IF p.type = "sweep"
                           THEN [p EXCEPT !.direction = 0 - p.direction] ELSE p]
         ELSE [target |-> next_position, pattern |-> p]
    ELSE [target |-> next_position, pattern |-> p]

\* the position _execute_sweep_step puts on the wire
SweepWirePosition(p, next_position) ==
    IF ValidPos(next_position) THEN next_position
    ELSE p.current_position

\* the speed _execute_sweep_step puts on the wire
SweepWireSpeed(p) == Max(0, Min(SpeedMax, p.speed))

\* the speed word _execute_rotation_step puts on the wire
RotationWireSpeed(p) ==
    LET a == IF p.speed < 0 THEN 0 - p.speed ELSE p.speed
        e == IF p.speed < 0 THEN a + CwOffset ELSE a
    IN  Max(0, Min(SpeedWordMax, e))

(***************************************************************************)
(* Garbage: a finished thread nobody holds and a pattern dict nobody       *)
(* refers to are unobservable; their slots are reused.                     *)
(***************************************************************************)
GCThr(th, handles) ==
    [t \in ThreadIds |->
        IF th[t].pc = "dead" /\ \A id \in Servos : handles[id] # t
        THEN FreeThr ELSE th[t]]

GCPat(pt, mp, th, rq, sp) ==
    [p \in PatIds |->
        IF \/ \E i \in 1..Len(mp) : mp[i][2] = p
           \/ \E t \in ThreadIds : th[t].pc \notin {"free", "dead"} /\ th[t].pattern = p
           \/ rq.pattern = p
           \/ sp.pattern = p
        THEN pt[p] ELSE FreePat]

\* the next state of the session objects, garbage collected
Commit(mp, handles, pt, th, rq, sp) ==
    LET th2 == GCThr(th, handles)
    IN  /\ movement_patterns' = mp
        /\ continuous_movement_threads' = handles
        /\ thr' = th2
        /\ pat' = GCPat(pt, mp, th2, rq, sp)
        /\ req' = rq
        /\ sup' = sp

FreeThreadSlots == {t \in ThreadIds : thr[t].pc = "free"}
FreePatSlots == {p \in PatIds : ~pat[p].used}
NewThreadSlot == CHOOSE t \in FreeThreadSlots : \A u \in FreeThreadSlots : t <= u
NewPatSlot == CHOOSE p \in FreePatSlots : \A q \in FreePatSlots : p <= q

\* a finished thread keeps only its identity
DeadThr(t) == [FreeThr EXCEPT !.pc = "dead", !.servo_id = thr[t].servo_id]

StopFlag(p) == p.immediate_stop \/ p.emergency_stop

(***************************************************************************)
(* _continuous_movement_worker, one action per statement that touches      *)
(* shared state.  t is the thread, p its pattern argument.                 *)
(***************************************************************************)
WorkerFrame ==
    UNCHANGED <<is_connected, port_open, monitoring_active, nreq,
                discovered_servos, eeprom_id, packet_handler, connection_status, group_sync_writers, group_sync_write_lock>>

\* the step of worker t: its thread record becomes tr, its pattern pr
WorkerStep(t, tr, pr) ==
    LET p == thr[t].pattern
    IN  Commit(movement_patterns, continuous_movement_threads,
               [pat EXCEPT ![p] = pr], [thr EXCEPT ![t] = tr], req, sup)

\* "finally: pattern['running'] = False", then the thread ends
WorkerExit(t) ==
    WorkerStep(t, DeadThr(t), [pat[thr[t].pattern] EXCEPT !.running = FALSE])

\* the position a new worker starts from: the pattern's, else a live read, else 2048
SeedPositions(p) ==
    IF p.current_position # Absent THEN {p.current_position}
    ELSE LivePositions \cup {PosCenter}

\* the defaults set before the loop
W_init(t) ==
    /\ thr[t].pc = "init"
    /\ LET p == pat[thr[t].pattern]
       IN  \E seed \in SeedPositions(p) :
             WorkerStep(t, [thr[t] EXCEPT !.pc = "loop"],
                  [p EXCEPT
                     !.current_position = seed,
                     !.direction = GetOr(p.direction, 1),
                     !.cycle_count = GetOr(p.cycle_count, 0),
                     !.start_position = GetOr(p.start_position, 0),
                     !.end_position = GetOr(p.end_position, PosMax)])
    /\ UNCHANGED <<inBus, hist, discovered_servos, eeprom_id, packet_handler, connection_status, group_sync_writers, group_sync_write_lock>>
    /\ WorkerFrame

\* while pattern.get("running", False); the model follows a worker for
\* `steps' iterations and until it has counted `cycles' cycles: after that it
\* stays in the loop, alive, and leaves it only when running is cleared
W_loop(t, steps, cycles) ==
    /\ thr[t].pc = "loop"
    /\ LET p == pat[thr[t].pattern]
       IN  IF p.running
           THEN /\ thr[t].step_count < steps
                /\ GetOr(p.cycle_count, 0) < cycles
                /\ WorkerStep(t, [thr[t] EXCEPT !.pc = "stop1"], p)
           ELSE WorkerExit(t)
    /\ UNCHANGED <<inBus, hist, discovered_servos, eeprom_id, packet_handler, connection_status, group_sync_writers, group_sync_write_lock>>
    /\ WorkerFrame

\* the first stop-flag check: sleep and continue
W_stop1(t) ==
    /\ thr[t].pc = "stop1"
    /\ LET p == pat[thr[t].pattern]
       IN  WorkerStep(t, [thr[t] EXCEPT !.pc = IF StopFlag(p) THEN "loop" ELSE "pause"], p)
    /\ UNCHANGED <<inBus, hist, discovered_servos, eeprom_id, packet_handler, connection_status, group_sync_writers, group_sync_write_lock>>
    /\ WorkerFrame

\* with self.pause_lock: if paused: sleep and continue
W_pause(t) ==
    /\ thr[t].pc = "pause"
    /\ LET p == pat[thr[t].pattern]
       IN  WorkerStep(t, [thr[t] EXCEPT !.pc = IF p.paused THEN "loop" ELSE "stop2"], p)
    /\ UNCHANGED <<inBus, hist, discovered_servos, eeprom_id, packet_handler, connection_status, group_sync_writers, group_sync_write_lock>>
    /\ WorkerFrame

\* the stop-flag checks that break out of the while loop
W_break(t, here, next) ==
    /\ thr[t].pc = here
    /\ LET p == pat[thr[t].pattern]
       IN  IF StopFlag(p) THEN WorkerExit(t)
           ELSE WorkerStep(t, [thr[t] EXCEPT !.pc = next], p)
    /\ UNCHANGED <<inBus, hist, discovered_servos, eeprom_id, packet_handler, connection_status, group_sync_writers, group_sync_write_lock>>
    /\ WorkerFrame

W_stop2(t) == W_break(t, "stop2", "calc")

\* next_position = self._calculate_next_position(servo_id, pattern)
W_calc(t) ==
    /\ thr[t].pc = "calc"
    /\ LET r == _calculate_next_position(pat[thr[t].pattern])
       IN  WorkerStep(t, [thr[t] EXCEPT !.pc = "stop3", !.next_position = r.target],
                      r.pattern)
    /\ UNCHANGED <<inBus, hist, discovered_servos, eeprom_id, packet_handler, connection_status, group_sync_writers, group_sync_write_lock>>
    /\ WorkerFrame

W_stop3(t) == W_break(t, "stop3", "clamp")

W_clamp(t) ==
    /\ thr[t].pc = "clamp"
    /\ LET r == ApplyAngleConstraints(pat[thr[t].pattern], thr[t].next_position)
       IN  WorkerStep(t, [thr[t] EXCEPT !.pc = "stop4", !.next_position = r.target],
                      r.pattern)
    /\ UNCHANGED <<inBus, hist, discovered_servos, eeprom_id, packet_handler, connection_status, group_sync_writers, group_sync_write_lock>>
    /\ WorkerFrame

W_stop4(t) == W_break(t, "stop4", "retry")

\* for attempt in range(3): a stop flag leaves the attempt loop without a command
W_retry(t) ==
    /\ thr[t].pc = "retry"
    /\ LET p == pat[thr[t].pattern]
       IN  WorkerStep(t, [thr[t] EXCEPT !.pc = IF StopFlag(p) THEN "failed" ELSE "exec"], p)
    /\ UNCHANGED <<inBus, hist, discovered_servos, eeprom_id, packet_handler, connection_status, group_sync_writers, group_sync_write_lock>>
    /\ WorkerFrame

\* what the step command carries: the position of WritePosEx, the speed word
\* of WriteSpec
WireValue(p, next_position) ==
    IF p.type = "sweep" THEN SweepWirePosition(p, next_position)
    ELSE RotationWireSpeed(p)

\* _execute_sweep_step / _execute_rotation_step: the command goes on the bus
W_exec(t) ==
    /\ thr[t].pc = "exec"
    /\ LET p == pat[thr[t].pattern]
       IN  WorkerStep(t, [thr[t] EXCEPT !.pc = "exec_rx", !.wire = WireValue(p, thr[t].next_position)], p)
    /\ inBus' = inBus \cup {<<"worker", t>>}
    /\ UNCHANGED <<hist, discovered_servos, eeprom_id, packet_handler, connection_status, group_sync_writers, group_sync_write_lock>>
    /\ WorkerFrame

\* the reply (comm_result): on COMM_SUCCESS the sweep step stores the position
\* it sent; a failure is only logged, no exception reaches the worker, which
\* sets movement_success and leaves the attempt loop
W_exec_rx(t) ==
    /\ thr[t].pc = "exec_rx"
    /\ LET p == pat[thr[t].pattern]
       IN  \E ok \in BOOLEAN :
             WorkerStep(t, [thr[t] EXCEPT !.pc = "update", !.wire = Absent,
                                         !.comm_result = IF ok THEN "ok" ELSE "fail"],
                  IF ok /\ p.type = "sweep"
                  THEN [p EXCEPT !.current_position = thr[t].wire]
                  ELSE p)
    /\ inBus' = inBus \ {<<"worker", t>>}
    /\ UNCHANGED <<hist, discovered_servos, eeprom_id, packet_handler, connection_status, group_sync_writers, group_sync_write_lock>>
    /\ WorkerFrame

\* what a recovery run (_attempt_servo_recovery, up to three times) leaves in
\* current_position: a position read back, or nothing when every attempt failed
RecoveryOutcomes == LivePositions \cup {Absent}

AfterRecovery(p, outcome) ==
    IF outcome = Absent THEN p ELSE [p EXCEPT !.current_position = outcome]

\* step_count += 1 and the pc that follows; step_count is only ever read
\* modulo health_check_interval, and is kept modulo health_check_interval
Stepped(t, tr) ==
    LET n == (thr[t].step_count + 1) % health_check_interval
    IN  [tr EXCEPT !.step_count = n, !.comm_result = "none",
                   !.pc = IF n = 0 THEN "health" ELSE "loop"]

\* movement_success: current_position and the cycle count are updated
W_update(t) ==
    /\ thr[t].pc = "update"
    /\ LET p  == pat[thr[t].pattern]
           np == thr[t].next_position
           boundary == /\ p.type = "sweep"
                       /\ \/ p.direction = 1 /\ np >= p.end_position
                          \/ p.direction = 0 - 1 /\ np <= p.start_position
       IN  WorkerStep(t, Stepped(t, [thr[t] EXCEPT !.consecutive_failures = 0]),
                [p EXCEPT !.current_position = np,
                          !.cycle_count = IF boundary THEN @ + 1 ELSE @])
    /\ UNCHANGED <<inBus, hist, discovered_servos, eeprom_id, packet_handler, connection_status, group_sync_writers, group_sync_write_lock>>
    /\ WorkerFrame

\* not movement_success: count the failure, run recovery after five in a row
W_failed(t) ==
    /\ thr[t].pc = "failed"
    /\ LET p == pat[thr[t].pattern]
           n == thr[t].consecutive_failures + 1
       IN  IF n >= max_consecutive_failures
           THEN \E outcome \in RecoveryOutcomes :
                  WorkerStep(t, Stepped(t, [thr[t] EXCEPT !.consecutive_failures = 0]),
                             AfterRecovery(p, outcome))
           ELSE WorkerStep(t, Stepped(t, [thr[t] EXCEPT !.consecutive_failures = n]), p)
    /\ UNCHANGED <<inBus, hist, discovered_servos, eeprom_id, packet_handler, connection_status, group_sync_writers, group_sync_write_lock>>
    /\ WorkerFrame

\* _check_communication_health_during_movement: a good read stores the live
\* position, a bad one runs recovery; the result is always True
HealthCheck(p, outcome) == AfterRecovery(p, outcome)

W_health(t) ==
    /\ thr[t].pc = "health"
    /\ \E outcome \in RecoveryOutcomes :
          WorkerStep(t, [thr[t] EXCEPT !.pc = "loop"],
                     HealthCheck(pat[thr[t].pattern], outcome))
    /\ UNCHANGED <<inBus, hist, discovered_servos, eeprom_id, packet_handler, connection_status, group_sync_writers, group_sync_write_lock>>
    /\ WorkerFrame

(***************************************************************************)
(* Request handlers.  One request is handled at a time; each handler is a  *)
(* sequence of steps of the request thread, and the state in which it has  *)
(* returned (pc = "ret") is visible before the next request starts.        *)
(***************************************************************************)
Idle == req.op = "none" /\ nreq < MaxRequests

PerIdReply(op) == op \in {"start", "stop", "pause", "resume", "limits"}

\* a handler with a results list replies success True whatever the list holds
Returned(op, id, result) ==
    [IdleReq EXCEPT !.op = op, !.pc = "ret", !.id = id, !.result = result,
                    !.success = PerIdReply(op) \/ result = "ok"]

\* return {"success": False, "error": error}
Fail(rq, error) ==
    [rq EXCEPT !.pc = "ret", !.result = "fail", !.error = error, !.success = FALSE]

\* results.append({"servo_id": id, "success": False, "error": error})
Refused(op, id, error) == [Returned(op, id, "fail") EXCEPT !.error = error]

\* the request thread's step: the session objects after it
ReqStep(mp, handles, pt, rq) == Commit(mp, handles, pt, thr, rq, sup)

ReqOnly(rq) == ReqStep(movement_patterns, continuous_movement_threads, pat, rq)

\* a request on servo id ends what an earlier pause(id) established
Touch(h, id) == [h EXCEPT !.pauseRet[id] = "none"]

R_done ==
    /\ req.pc = "ret"
    /\ ReqOnly(IdleReq)
    /\ hist' = [hist EXCEPT !.prevStop =
                    IF req.op = "stop" /\ req.result = "ok" THEN req.id ELSE 0]
    /\ UNCHANGED <<is_connected, port_open, monitoring_active, inBus, nreq,
                   discovered_servos, eeprom_id, packet_handler, connection_status, group_sync_writers, group_sync_write_lock>>

\* ---- start_continuous_movement([config]) --------------------------------
NewPattern(cfg) ==
    [FreePat EXCEPT
        !.used = TRUE, !.type = cfg.type, !.speed = cfg.speed, !.running = TRUE,
        !.current_position = 0,
        !.ac_enabled = cfg.ac_enabled, !.ac_min = cfg.ac_min, !.ac_max = cfg.ac_max,
        !.min_position = IF cfg.type = "sweep" THEN GetOr(cfg.min_position, 0) ELSE Absent,
        !.max_position = IF cfg.type = "sweep" THEN GetOr(cfg.max_position, PosMax) ELSE Absent,
        !.direction = IF cfg.type = "rotation" THEN GetOr(cfg.direction, 1) ELSE 1,
        !.req_cycles = cfg.cycles]

\* "if not servo_id": None and 0 are both false
Missing(servo_id) == servo_id = 0

\* not connected: error; no servo_id, or set_angle_limits failed: the config
\* is skipped; otherwise the new pattern replaces the record of id
R_start(id, cfg) ==
    /\ Idle
    /\ nreq' = nreq + 1
    /\ IF ~is_connected
       THEN /\ ReqOnly(Fail(Returned("start", id, "fail"), "Not connected"))
            /\ UNCHANGED <<hist, discovered_servos, eeprom_id, packet_handler, connection_status, group_sync_writers, group_sync_write_lock>>
       ELSE IF Missing(id)
       THEN /\ ReqOnly([IdleReq EXCEPT !.op = "start", !.pc = "s_mon",
                                       !.id = id, !.result = "fail"])
            /\ UNCHANGED <<hist, discovered_servos, eeprom_id, packet_handler, connection_status, group_sync_writers, group_sync_write_lock>>
       ELSE \E limits_ok \in BOOLEAN :
              /\ limits_ok \/ (cfg.ac_enabled /\ cfg.ac_min # Absent /\ cfg.ac_max # Absent)
              /\ IF ~limits_ok
                 THEN /\ ReqOnly([IdleReq EXCEPT !.op = "start", !.pc = "s_mon",
                                                 !.id = id, !.result = "fail"])
                      /\ UNCHANGED <<hist, discovered_servos, eeprom_id, packet_handler, connection_status, group_sync_writers, group_sync_write_lock>>
                 ELSE /\ FreePatSlots # {}
                      /\ LET p == NewPatSlot
                         IN  ReqStep(Put(movement_patterns, id, p),
                                     continuous_movement_threads,
                                     [pat EXCEPT ![p] = NewPattern(cfg)],
                                     [IdleReq EXCEPT !.op = "start", !.pc = "s_threads",
                                                     !.id = id, !.pattern = p,
                                                     !.result = "ok"])
                      /\ hist' = [hist EXCEPT !.pauseRet[id] = "none",
                                               !.stopped[id] = FALSE]
    /\ UNCHANGED <<is_connected, port_open, monitoring_active, inBus,
                   discovered_servos, eeprom_id, packet_handler, connection_status, group_sync_writers, group_sync_write_lock>>

\* the pattern whose running flag "stop existing thread" clears:
\* self.movement_patterns[servo_id], which already is the new pattern
StopExistingTarget(id) == Get(movement_patterns, id)

\* if servo_id in self.continuous_movement_threads: stop the existing thread
R_start_threads ==
    /\ req.op = "start" /\ req.pc = "s_threads"
    /\ LET h == continuous_movement_threads[req.id]
           q == StopExistingTarget(req.id)
       IN  IF h # NoRef
           THEN ReqStep(movement_patterns, continuous_movement_threads,
                        [pat EXCEPT ![q].running = FALSE],
                        [req EXCEPT !.pc = IF Alive(h) THEN "s_join" ELSE "s_spawn"])
           ELSE ReqOnly([req EXCEPT !.pc = "s_spawn"])
    /\ UNCHANGED <<is_connected, port_open, monitoring_active, inBus, nreq, hist, discovered_servos, eeprom_id, packet_handler, connection_status, group_sync_writers, group_sync_write_lock>>

\* join(timeout=1.0) has returned: the thread ended or the second is over
R_start_join ==
    /\ req.op = "start" /\ req.pc = "s_join"
    /\ ReqOnly([req EXCEPT !.pc = "s_spawn"])
    /\ UNCHANGED <<is_connected, port_open, monitoring_active, inBus, nreq, hist, discovered_servos, eeprom_id, packet_handler, connection_status, group_sync_writers, group_sync_write_lock>>

NewWorker(id, p) == [FreeThr EXCEPT !.pc = "init", !.servo_id = id, !.pattern = p]

\* the new thread is created, stored and started
R_start_spawn ==
    /\ req.op = "start" /\ req.pc = "s_spawn"
    /\ FreeThreadSlots # {}
    /\ LET t == NewThreadSlot
       IN  Commit(movement_patterns,
                  [continuous_movement_threads EXCEPT ![req.id] = t],
                  pat, [thr EXCEPT ![t] = NewWorker(req.id, req.pattern)],
                  [req EXCEPT !.pc = "s_mon"], sup)
    /\ UNCHANGED <<is_connected, port_open, monitoring_active, inBus, nreq, hist, discovered_servos, eeprom_id, packet_handler, connection_status, group_sync_writers, group_sync_write_lock>>

\* start_periodic_monitoring unless monitoring is active, then return
R_start_mon ==
    /\ req.op = "start" /\ req.pc = "s_mon"
    /\ IF ~monitoring_active /\ sup.pc = "none"
       THEN Commit(movement_patterns, continuous_movement_threads, pat, thr,
                   Returned("start", req.id, req.result), [IdleSup EXCEPT !.pc = "scan"])
       ELSE ReqOnly(Returned("start", req.id, req.result))
    /\ monitoring_active' = IF sup.pc = "none" THEN TRUE ELSE monitoring_active
    /\ UNCHANGED <<is_connected, port_open, inBus, nreq, hist, discovered_servos, eeprom_id, packet_handler, connection_status, group_sync_writers, group_sync_write_lock>>

\* ---- stop_continuous_movement([id]) --------------------------------------
R_stop(id) ==
    /\ Idle
    /\ nreq' = nreq + 1
    /\ IF ~is_connected \/ ~HasKey(movement_patterns, id)
       THEN /\ ReqOnly(Refused("stop", id, IF ~is_connected THEN "Not connected"
                                           ELSE "No running movement found"))
            /\ hist' = Touch(hist, id)
       ELSE /\ LET p == Get(movement_patterns, id)
                   h == continuous_movement_threads[id]
               IN  ReqStep(movement_patterns, continuous_movement_threads,
                           [pat EXCEPT ![p].running = FALSE],
                           [IdleReq EXCEPT !.op = "stop", !.id = id,
                                           !.pc = IF Alive(h) THEN "t_join" ELSE "t_clean"])
            /\ hist' = [Touch(hist, id) EXCEPT !.stopped[id] = TRUE]
    /\ UNCHANGED <<is_connected, port_open, monitoring_active, inBus,
                   discovered_servos, eeprom_id, packet_handler, connection_status, group_sync_writers, group_sync_write_lock>>

\* join(timeout=2.0) has returned
R_stop_join ==
    /\ req.op = "stop" /\ req.pc = "t_join"
    /\ ReqOnly([req EXCEPT !.pc = "t_clean"])
    /\ UNCHANGED <<is_connected, port_open, monitoring_active, inBus, nreq, hist, discovered_servos, eeprom_id, packet_handler, connection_status, group_sync_writers, group_sync_write_lock>>

\* what ReadPos may give the handler: a live position, or nothing
PositionReads == LivePositions \cup {Absent}

\* "if comm_result_read_pos != COMM_SUCCESS or current_pos is None:
\*      current_pos = 2048"
HoldPosition(current_pos) == IF current_pos = Absent THEN PosCenter ELSE current_pos

\* the hold of a positional pattern: ReadPos, then WritePosEx(pos, 0, 0);
\* a rotation is held by WriteSpec(0) and reads no position
Held(rq, type, id, current_pos) ==
    IF type = "rotation" THEN rq
    ELSE [rq EXCEPT !.tx = @ \cup {<<"ReadPos", id, current_pos # Absent>>},
                    !.hold = HoldPosition(current_pos)]

\* the hold commands (the results of the writes are only logged), then the
\* clean-up: the thread handle goes, the record goes if it is not running
R_stop_clean ==
    /\ req.op = "stop" /\ req.pc = "t_clean"
    /\ LET p == Get(movement_patterns, req.id)
       IN  \E current_pos \in PositionReads :
             /\ current_pos = Absent \/ pat[p].type # "rotation"
             /\ ReqStep(IF p # NoRef /\ ~pat[p].running
                        THEN Del(movement_patterns, req.id) ELSE movement_patterns,
                        [continuous_movement_threads EXCEPT ![req.id] = NoRef],
                        pat, Held(Returned("stop", req.id, "ok"), pat[p].type,
                                  req.id, current_pos))
    /\ UNCHANGED <<is_connected, port_open, monitoring_active, inBus, nreq, hist, discovered_servos, eeprom_id, packet_handler, connection_status, group_sync_writers, group_sync_write_lock>>

\* ---- pause_continuous_movement([id]) -------------------------------------
HasRunning(id) ==
    HasKey(movement_patterns, id) /\ pat[Get(movement_patterns, id)].running

\* with self.pause_lock: the three flags are set
R_pause(id) ==
    /\ Idle
    /\ nreq' = nreq + 1
    /\ hist' = Touch(hist, id)
    /\ IF ~is_connected \/ ~HasRunning(id)
       THEN ReqOnly(IF ~is_connected
                    THEN Fail(Returned("pause", id, "fail"), "Not connected")
                    ELSE Refused("pause", id, "No running movement found"))
       ELSE ReqStep(movement_patterns, continuous_movement_threads,
                    [pat EXCEPT ![Get(movement_patterns, id)] =
                        [@ EXCEPT !.immediate_stop = TRUE, !.emergency_stop = TRUE,
                                  !.paused = TRUE]],
                    [IdleReq EXCEPT !.op = "pause", !.pc = "p_verify", !.id = id])
    /\ UNCHANGED <<is_connected, port_open, monitoring_active, inBus,
                   discovered_servos, eeprom_id, packet_handler, connection_status, group_sync_writers, group_sync_write_lock>>

\* after the sleep: the stop flags are set again if immediate_stop is not set
R_pause_verify ==
    /\ req.op = "pause" /\ req.pc = "p_verify"
    /\ LET p == Get(movement_patterns, req.id)
       IN  ReqStep(movement_patterns, continuous_movement_threads,
                   IF pat[p].immediate_stop THEN pat
                   ELSE [pat EXCEPT ![p] = [@ EXCEPT !.immediate_stop = TRUE,
                                                     !.emergency_stop = TRUE]],
                   [req EXCEPT !.pc = "p_hold"])
    /\ UNCHANGED <<is_connected, port_open, monitoring_active, inBus, nreq, hist, discovered_servos, eeprom_id, packet_handler, connection_status, group_sync_writers, group_sync_write_lock>>

\* the write whose failure undoes the pause: WriteSpec(0) of a rotation, the
\* torque enable of a positional pattern
ClearPauseFlags(p) ==
    [p EXCEPT !.paused = FALSE, !.immediate_stop = FALSE, !.emergency_stop = FALSE]

R_pause_hold ==
    /\ req.op = "pause" /\ req.pc = "p_hold"
    /\ LET p == Get(movement_patterns, req.id)
       IN  \E write_ok \in BOOLEAN, current_pos \in PositionReads :
             /\ current_pos = Absent \/ pat[p].type # "rotation"
             /\ IF write_ok
                THEN /\ ReqOnly(Held([req EXCEPT !.pc = "p_clear"], pat[p].type,
                                     req.id, current_pos))
                     /\ UNCHANGED <<hist, discovered_servos, eeprom_id, packet_handler, connection_status, group_sync_writers, group_sync_write_lock>>
                ELSE /\ ReqStep(movement_patterns, continuous_movement_threads,
                                [pat EXCEPT ![p] = ClearPauseFlags(@)],
                                Held(Returned("pause", req.id, "fail"), pat[p].type,
                                     req.id, current_pos))
                     /\ hist' = [hist EXCEPT !.pauseRet[req.id] = "failed"]
    /\ UNCHANGED <<is_connected, port_open, monitoring_active, inBus, nreq,
                   discovered_servos, eeprom_id, packet_handler, connection_status, group_sync_writers, group_sync_write_lock>>

\* emergency_stop is cleared, immediate_stop and paused stay
R_pause_clear ==
    /\ req.op = "pause" /\ req.pc = "p_clear"
    /\ LET p == Get(movement_patterns, req.id)
       IN  ReqStep(movement_patterns, continuous_movement_threads,
                   [pat EXCEPT ![p].emergency_stop = FALSE],
                   [Returned("pause", req.id, "ok") EXCEPT !.tx = req.tx,
                                                           !.hold = req.hold])
    /\ hist' = [hist EXCEPT !.pauseRet[req.id] = "ok"]
    /\ UNCHANGED <<is_connected, port_open, monitoring_active, inBus, nreq,
                   discovered_servos, eeprom_id, packet_handler, connection_status, group_sync_writers, group_sync_write_lock>>

\* ---- resume_continuous_movement([id]) ------------------------------------
R_resume(id) ==
    /\ Idle
    /\ nreq' = nreq + 1
    /\ hist' = Touch(hist, id)
    /\ IF is_connected /\ HasRunning(id) /\ pat[Get(movement_patterns, id)].paused
       THEN ReqStep(movement_patterns, continuous_movement_threads,
                    [pat EXCEPT ![Get(movement_patterns, id)] =
                        [@ EXCEPT !.paused = FALSE, !.immediate_stop = FALSE]],
                    Returned("resume", id, "ok"))
       ELSE ReqOnly(Refused("resume", id, IF ~is_connected THEN "Not connected"
                                          ELSE "No running/paused movement found"))
    /\ UNCHANGED <<is_connected, port_open, monitoring_active, inBus,
                   discovered_servos, eeprom_id, packet_handler, connection_status, group_sync_writers, group_sync_write_lock>>

\* resume([id]) handled by another request thread while a pause is in flight:
\* the check and, under pause_lock, the two assignments; its reply is not kept
R_resume_other(id) ==
    /\ req.op = "pause" /\ req.pc # "ret"
    /\ nreq < MaxRequests
    /\ nreq' = nreq + 1
    /\ hist' = Touch(hist, id)
    /\ IF is_connected /\ HasRunning(id) /\ pat[Get(movement_patterns, id)].paused
       THEN ReqStep(movement_patterns, continuous_movement_threads,
                    [pat EXCEPT ![Get(movement_patterns, id)] =
                        [@ EXCEPT !.paused = FALSE, !.immediate_stop = FALSE]],
                    req)
       ELSE ReqOnly(req)
    /\ UNCHANGED <<is_connected, port_open, monitoring_active, inBus,
                   discovered_servos, eeprom_id, packet_handler, connection_status, group_sync_writers, group_sync_write_lock>>

\* ---- force_stop_all_movements() ------------------------------------------
R_force_stop ==
    /\ Idle
    /\ nreq' = nreq + 1
    /\ IF ~is_connected
       THEN /\ ReqOnly(Fail(Returned("force_stop", 0, "fail"), "Not connected"))
            /\ UNCHANGED <<hist, discovered_servos, eeprom_id, packet_handler, connection_status, group_sync_writers, group_sync_write_lock>>
       ELSE /\ ReqStep(movement_patterns, continuous_movement_threads,
                       [p \in PatIds |->
                           IF \E i \in 1..Len(movement_patterns) : movement_patterns[i][2] = p
                           THEN [pat[p] EXCEPT !.running = FALSE] ELSE pat[p]],
                       [IdleReq EXCEPT !.op = "force_stop", !.pc = "f_clean"])
            /\ hist' = [hist EXCEPT
                  !.pauseRet = [i \in Servos |-> "none"],
                  !.stopped = [i \in Servos |-> @[i] \/ HasKey(movement_patterns, i)]]
    /\ UNCHANGED <<is_connected, port_open, monitoring_active, inBus,
                   discovered_servos, eeprom_id, packet_handler, connection_status, group_sync_writers, group_sync_write_lock>>

\* the hold commands, the joins (1 s each), then both dicts are cleared
R_force_stop_clean ==
    /\ req.op = "force_stop" /\ req.pc = "f_clean"
    /\ ReqStep(<<>>, [i \in Servos |-> NoRef], pat, Returned("force_stop", 0, "ok"))
    /\ UNCHANGED <<is_connected, port_open, monitoring_active, inBus, nreq, hist, discovered_servos, eeprom_id, packet_handler, connection_status, group_sync_writers, group_sync_write_lock>>

\* ---- connect / disconnect ------------------------------------------------
\* disconnect(): closePort, is_connected = False, discovered_servos = {};
\* the workers and the records are left alone
R_disconnect ==
    /\ Idle
    /\ nreq' = nreq + 1
    /\ port_open' = FALSE
    /\ is_connected' = FALSE
    /\ discovered_servos' = {}
    /\ ReqOnly(Returned("disconnect", 0, "ok"))
    /\ connection_status' = NotConnected
    /\ group_sync_writers' = FALSE
    /\ UNCHANGED <<monitoring_active, inBus, hist, eeprom_id, packet_handler,
                   group_sync_write_lock>>

\* connect(): "if self.is_connected: self.disconnect()"
R_connect ==
    /\ Idle
    /\ nreq' = nreq + 1
    /\ port_open' = IF is_connected THEN FALSE ELSE port_open
    /\ is_connected' = FALSE
    /\ discovered_servos' = IF is_connected THEN {} ELSE discovered_servos
    /\ packet_handler' = TRUE
    /\ group_sync_writers' = IF is_connected THEN FALSE ELSE group_sync_writers
    /\ ReqOnly([IdleReq EXCEPT !.op = "connect", !.pc = "c_open"])
    /\ UNCHANGED <<monitoring_active, inBus, hist, eeprom_id, connection_status,
                   group_sync_write_lock>>

\* api_connect: "if result["success"]: connection_status.update(...)"
StatusAfterConnect(success) ==
    IF success
    THEN [connected |-> TRUE, port |-> CHOOSE port \in DefaultPorts : TRUE,
          baudrate |-> DefaultBaud]
    ELSE connection_status

\* what connect asked of the port handler, by outcome
PortCalls(outcome) ==
    CASE outcome = "open_failed" -> {<<"openPort", 0, FALSE>>}
      [] outcome = "baud_failed" -> {<<"openPort", 0, TRUE>>, <<"setBaudRate", 0, FALSE>>,
                                     <<"closePort", 0, TRUE>>}
      [] outcome = "ok" -> {<<"openPort", 0, TRUE>>, <<"setBaudRate", 0, TRUE>>}

\* a connect that goes on once the port is open, whatever setBaudRate said
R_connect_open_any_baud ==
    /\ req.op = "connect" /\ req.pc = "c_open"
    /\ \E outcome \in {"open_failed", "baud_failed", "ok"} :
          /\ port_open' = (outcome # "open_failed")
          /\ is_connected' = (outcome # "open_failed")
          /\ ReqOnly([Returned("connect", 0,
                               IF outcome # "open_failed" THEN "ok" ELSE "fail")
                         EXCEPT !.tx = PortCalls(outcome)])
          /\ connection_status' = StatusAfterConnect(req'.result = "ok")
          /\ group_sync_writers' = (is_connected' \/ group_sync_writers)
          /\ is_connected' => ~group_sync_write_lock
    /\ UNCHANGED <<monitoring_active, inBus, nreq, hist, discovered_servos, eeprom_id, packet_handler,
                   group_sync_write_lock>>

\* openPort and setBaudRate on the new port handler
R_connect_open ==
    /\ req.op = "connect" /\ req.pc = "c_open"
    /\ \E outcome \in {"open_failed", "baud_failed", "ok"} :
          /\ port_open' = (outcome = "ok")
          /\ is_connected' = (outcome = "ok")
          /\ ReqOnly([Returned("connect", 0, IF outcome = "ok" THEN "ok" ELSE "fail")
                         EXCEPT !.tx = PortCalls(outcome)])
          /\ connection_status' = StatusAfterConnect(req'.result = "ok")
          /\ group_sync_writers' = (is_connected' \/ group_sync_writers)
          /\ is_connected' => ~group_sync_write_lock
    /\ UNCHANGED <<monitoring_active, inBus, nreq, hist, discovered_servos, eeprom_id, packet_handler,
                   group_sync_write_lock>>

\* ---- get_servo_telemetry(id): the position read, up to three attempts ----
R_telemetry(id) ==
    /\ Idle
    /\ nreq' = nreq + 1
    /\ IF ~is_connected
       THEN /\ ReqOnly(Fail(Returned("telemetry", id, "fail"), "Not connected"))
            /\ UNCHANGED inBus
       ELSE /\ ReqOnly([IdleReq EXCEPT !.op = "telemetry", !.pc = "tel_rx", !.id = id])
            /\ inBus' = inBus \cup {<<"req", 0>>}
    /\ UNCHANGED <<is_connected, port_open, monitoring_active, hist, discovered_servos, eeprom_id, packet_handler, connection_status, group_sync_writers, group_sync_write_lock>>

R_telemetry_rx ==
    /\ req.op = "telemetry" /\ req.pc = "tel_rx"
    /\ inBus' = inBus \ {<<"req", 0>>}
    /\ \E ok \in BOOLEAN :
          IF ok THEN ReqOnly(Returned("telemetry", req.id, "ok"))
          ELSE IF req.attempt < 2
          THEN ReqOnly([req EXCEPT !.pc = "tel_tx", !.attempt = @ + 1])
          ELSE ReqOnly(Returned("telemetry", req.id, "fail"))
    /\ UNCHANGED <<is_connected, port_open, monitoring_active, nreq, hist, discovered_servos, eeprom_id, packet_handler, connection_status, group_sync_writers, group_sync_write_lock>>

R_telemetry_tx ==
    /\ req.op = "telemetry" /\ req.pc = "tel_tx"
    /\ inBus' = inBus \cup {<<"req", 0>>}
    /\ ReqOnly([req EXCEPT !.pc = "tel_rx"])
    /\ UNCHANGED <<is_connected, port_open, monitoring_active, nreq, hist, discovered_servos, eeprom_id, packet_handler, connection_status, group_sync_writers, group_sync_write_lock>>

\* ---- api_enable_angle_constraints([id], min_angle, max_angle) -------------
\* the limits are stored in the record of id, then written to the servo
R_limits(id, min_angle, max_angle) ==
    /\ Idle
    /\ nreq' = nreq + 1
    /\ IF ~HasKey(movement_patterns, id)
       THEN /\ ReqOnly(Refused("limits", id, "No active movement for this servo"))
            /\ UNCHANGED inBus
       ELSE LET pt == [pat EXCEPT ![Get(movement_patterns, id)] =
                         [@ EXCEPT !.ac_enabled = TRUE, !.ac_min = min_angle,
                                   !.ac_max = max_angle]]
            IN  IF ~is_connected
                THEN /\ ReqStep(movement_patterns, continuous_movement_threads, pt,
                                Refused("limits", id, "Not connected"))
                     /\ UNCHANGED inBus
                ELSE /\ ReqStep(movement_patterns, continuous_movement_threads, pt,
                                [IdleReq EXCEPT !.op = "limits", !.pc = "l_rx",
                                                !.id = id])
                     /\ inBus' = inBus \cup {<<"req", 0>>}
    /\ UNCHANGED <<is_connected, port_open, monitoring_active, hist,
                   discovered_servos, eeprom_id, packet_handler, connection_status, group_sync_writers, group_sync_write_lock>>

\* set_angle_limits: unLockEprom, the two limit registers, LockEprom
R_limits_rx ==
    /\ req.op = "limits" /\ req.pc = "l_rx"
    /\ inBus' = inBus \ {<<"req", 0>>}
    /\ \E ok \in BOOLEAN :
          ReqOnly(IF ok THEN Returned("limits", req.id, "ok")
                  ELSE Refused("limits", req.id, "set_angle_limits failed"))
    /\ UNCHANGED <<is_connected, port_open, monitoring_active, nreq, hist,
                   discovered_servos, eeprom_id, packet_handler, connection_status, group_sync_writers, group_sync_write_lock>>

\* ---- the servos on the bus ------------------------------------------------
\* a servo answers the instructions addressed to the id in its EEPROM; any
\* transaction may also time out
Answers(id) == \E d \in Servos : eeprom_id[d] = id

TxOutcomes(id) == IF Answers(id) THEN BOOLEAN ELSE {FALSE}

Sent(rq, kind, id, ok) == [rq EXCEPT !.tx = @ \cup {<<kind, id, ok>>}]

\* ---- discover_servos(start_id, end_id) -----------------------------------
R_discover(start_id, end_id) ==
    /\ Idle
    /\ nreq' = nreq + 1
    /\ IF ~is_connected
       THEN ReqOnly(Fail([IdleReq EXCEPT !.op = "discover"], "Not connected"))
       ELSE ReqOnly([IdleReq EXCEPT !.op = "discover", !.pc = "d_ping",
                                    !.id = start_id, !.arg = end_id])
    /\ UNCHANGED <<is_connected, port_open, monitoring_active, inBus, hist,
                   discovered_servos, eeprom_id, packet_handler, connection_status, group_sync_writers, group_sync_write_lock>>

\* one turn of "for servo_id in range(start_id, end_id + 1)"
R_discover_ping ==
    /\ req.op = "discover" /\ req.pc = "d_ping"
    /\ req.id <= req.arg
    /\ \E ok \in TxOutcomes(req.id) :
          ReqOnly([Sent(req, "ping", req.id, ok) EXCEPT
                      !.found = IF ok THEN @ \cup {req.id} ELSE @,
                      !.id = @ + 1])
    /\ UNCHANGED <<is_connected, port_open, monitoring_active, inBus, nreq, hist,
                   discovered_servos, eeprom_id, packet_handler, connection_status, group_sync_writers, group_sync_write_lock>>

\* a discovery that adds what it found to the map
R_discover_done_merged ==
    /\ req.op = "discover" /\ req.pc = "d_ping"
    /\ req.id > req.arg
    /\ discovered_servos' = discovered_servos \cup req.found
    /\ ReqOnly([req EXCEPT !.pc = "ret", !.result = "ok", !.success = TRUE])
    /\ UNCHANGED <<is_connected, port_open, monitoring_active, inBus, nreq, hist,
                   eeprom_id, packet_handler, connection_status, group_sync_writers, group_sync_write_lock>>

\* "self.discovered_servos = discovered"
R_discover_done ==
    /\ req.op = "discover" /\ req.pc = "d_ping"
    /\ req.id > req.arg
    /\ discovered_servos' = req.found
    /\ ReqOnly([req EXCEPT !.pc = "ret", !.result = "ok", !.success = TRUE])
    /\ UNCHANGED <<is_connected, port_open, monitoring_active, inBus, nreq, hist,
                   eeprom_id, packet_handler, connection_status, group_sync_writers, group_sync_write_lock>>

\* ---- change_servo_id(old_id, new_id) -------------------------------------
ValidId(id) == 0 <= id /\ id <= MaxServoId

BusFrame ==
    UNCHANGED <<is_connected, port_open, monitoring_active, inBus, nreq, hist,
                discovered_servos, packet_handler, connection_status, group_sync_writers, group_sync_write_lock>>

R_change_id(old_id, new_id) ==
    /\ Idle
    /\ nreq' = nreq + 1
    /\ LET rq == [IdleReq EXCEPT !.op = "change_id", !.id = old_id, !.arg = new_id]
       IN  IF ~is_connected THEN ReqOnly(Fail(rq, "Not connected"))
           ELSE IF ~(ValidId(old_id) /\ ValidId(new_id))
           THEN ReqOnly(Fail(rq, "Invalid ID range"))
           ELSE IF old_id = new_id THEN ReqOnly(Fail(rq, "IDs must be different"))
           ELSE ReqOnly([rq EXCEPT !.pc = "ci_ping_old"])
    /\ hist' = [hist EXCEPT !.ids = eeprom_id]
    /\ UNCHANGED <<is_connected, port_open, monitoring_active, inBus,
                   discovered_servos, eeprom_id, packet_handler, connection_status, group_sync_writers, group_sync_write_lock>>

\* ping(old_id): the servo must answer
R_change_ping_old ==
    /\ req.op = "change_id" /\ req.pc = "ci_ping_old"
    /\ \E ok \in TxOutcomes(req.id) :
          LET rq == Sent(req, "ping", req.id, ok)
          IN  IF ok THEN ReqOnly([rq EXCEPT !.pc = "ci_ping_new"])
              ELSE ReqOnly(Fail(rq, "not found"))
    /\ BusFrame /\ UNCHANGED eeprom_id

\* ping(new_id) whose answer is not looked at
R_change_ping_new_ignored ==
    /\ req.op = "change_id" /\ req.pc = "ci_ping_new"
    /\ \E ok \in TxOutcomes(req.arg) :
          ReqOnly([Sent(req, "ping", req.arg, ok) EXCEPT !.pc = "ci_unlock"])
    /\ BusFrame /\ UNCHANGED eeprom_id

\* ping(new_id): nothing may answer
R_change_ping_new ==
    /\ req.op = "change_id" /\ req.pc = "ci_ping_new"
    /\ \E ok \in TxOutcomes(req.arg) :
          LET rq == Sent(req, "ping", req.arg, ok)
          IN  IF ok THEN ReqOnly(Fail(rq, "already in use"))
              ELSE ReqOnly([rq EXCEPT !.pc = "ci_unlock"])
    /\ BusFrame /\ UNCHANGED eeprom_id

\* unLockEprom(old_id)
R_change_unlock ==
    /\ req.op = "change_id" /\ req.pc = "ci_unlock"
    /\ \E ok \in TxOutcomes(req.id) :
          LET rq == Sent(req, "unlock", req.id, ok)
          IN  IF ok THEN ReqOnly([rq EXCEPT !.pc = "ci_write"])
              ELSE ReqOnly(Fail(rq, "Failed to unlock EEPROM"))
    /\ BusFrame /\ UNCHANGED eeprom_id

\* a write of the ID register that no servo takes up
RenumberedNone(ids, old_id, new_id) == ids

\* the servos that were at old_id answer to new_id once the write arrived
Renumbered(ids, old_id, new_id) ==
    [d \in DOMAIN ids |-> IF ids[d] = old_id THEN new_id ELSE ids[d]]

\* write1ByteTxRx(old_id, STS_ID, new_id): the write arrives and is
\* acknowledged, arrives and the acknowledgement is lost, or is lost
R_change_write ==
    /\ req.op = "change_id" /\ req.pc = "ci_write"
    /\ \E arrived \in TxOutcomes(req.id), ok \in BOOLEAN :
          /\ ok => arrived
          /\ eeprom_id' = IF arrived THEN Renumbered(eeprom_id, req.id, req.arg)
                          ELSE eeprom_id
          /\ LET rq == Sent(req, "write", req.id, ok)
             IN  IF ok THEN ReqOnly([rq EXCEPT !.pc = "ci_lock"])
                 ELSE \E locked \in (IF arrived THEN {FALSE} ELSE BOOLEAN) :
                         ReqOnly(Fail(Sent(rq, "lock", req.id, locked),
                                      "Failed to write new ID"))
    /\ BusFrame

\* LockEprom(new_id)
R_change_lock ==
    /\ req.op = "change_id" /\ req.pc = "ci_lock"
    /\ \E ok \in TxOutcomes(req.arg) :
          LET rq == Sent(req, "lock", req.arg, ok)
          IN  IF ok THEN ReqOnly([rq EXCEPT !.pc = "ci_verify"])
              ELSE ReqOnly(Fail(rq, "Failed to lock EEPROM"))
    /\ BusFrame /\ UNCHANGED eeprom_id

\* ping(new_id) for verification
R_change_verify ==
    /\ req.op = "change_id" /\ req.pc = "ci_verify"
    /\ \E ok \in TxOutcomes(req.arg) :
          LET rq == Sent(req, "verify", req.arg, ok)
          IN  IF ok THEN ReqOnly([rq EXCEPT !.pc = "ret", !.result = "ok",
                                            !.success = TRUE])
              ELSE ReqOnly(Fail(rq, "verification failed"))
    /\ BusFrame /\ UNCHANGED eeprom_id

\* ---- set_servo_offset / set_angle_limits / set_dead_zone ------------------
\* the EEPROM-protected sequences: unLockEprom, the register writes, LockEprom
EepromOps == {"set_servo_offset", "set_angle_limits", "set_dead_zone"}

\* the registers each sequence writes, in order
EepromWrites(op) ==
    CASE op = "set_servo_offset" -> <<"STS_OFS_L">>
      [] op = "set_angle_limits" -> <<"STS_MIN_ANGLE_LIMIT_L", "STS_MAX_ANGLE_LIMIT_L">>
      [] op = "set_dead_zone"    -> <<"STS_CW_DEAD", "STS_CCW_DEAD">>

R_eeprom(op, id) ==
    /\ Idle
    /\ nreq' = nreq + 1
    /\ LET rq == [IdleReq EXCEPT !.op = op, !.id = id]
       IN  IF ~is_connected THEN ReqOnly(Fail(rq, "Not connected"))
           ELSE ReqOnly([rq EXCEPT !.pc = "e_unlock", !.data = EepromWrites(op)])
    /\ UNCHANGED <<is_connected, port_open, monitoring_active, inBus, hist,
                   discovered_servos, eeprom_id, packet_handler, connection_status, group_sync_writers, group_sync_write_lock>>

\* unLockEprom(servo_id)
R_eeprom_unlock ==
    /\ req.op \in EepromOps /\ req.pc = "e_unlock"
    /\ \E ok \in TxOutcomes(req.id) :
          LET rq == Sent(req, "unlock", req.id, ok)
          IN  IF ok THEN ReqOnly([rq EXCEPT !.pc = "e_write"])
              ELSE ReqOnly(Fail(rq, "Failed to unlock EPROM"))
    /\ BusFrame /\ UNCHANGED eeprom_id

\* the next register write: a failure returns at once
R_eeprom_write ==
    /\ req.op \in EepromOps /\ req.pc = "e_write"
    /\ req.data # <<>>
    /\ \E ok \in TxOutcomes(req.id) :
          LET rq == Sent(req, Head(req.data), req.id, ok)
          IN  IF ok THEN ReqOnly([rq EXCEPT !.data = Tail(@)])
              ELSE ReqOnly(Fail(rq, "Failed to set"))
    /\ BusFrame /\ UNCHANGED eeprom_id

\* LockEprom(servo_id)
R_eeprom_lock ==
    /\ req.op \in EepromOps /\ req.pc = "e_write"
    /\ req.data = <<>>
    /\ \E ok \in TxOutcomes(req.id) :
          LET rq == Sent(req, "lock", req.id, ok)
          IN  IF ok THEN ReqOnly([rq EXCEPT !.pc = "ret", !.result = "ok",
                                            !.success = TRUE])
              ELSE ReqOnly(Fail(rq, "Failed to lock EPROM"))
    /\ BusFrame /\ UNCHANGED eeprom_id

\* ---- syncWrite / syncWriteContinuousSpeed(servo_data) --------------------
\* op is "sync_position" or "sync_speed"; found is the parameter batch of the
\* writer, which every call clears first
SyncOps == {"sync_position", "sync_speed"}

R_sync(op, servo_data) ==
    /\ Idle
    /\ nreq' = nreq + 1
    /\ ReqOnly([IdleReq EXCEPT !.op = op, !.pc = "y_get", !.data = servo_data])
    /\ UNCHANGED <<is_connected, port_open, monitoring_active, inBus, hist,
                   discovered_servos, eeprom_id, packet_handler, connection_status,
                   group_sync_writers, group_sync_write_lock>>

\* "with self.group_sync_write_lock:", in the getter of a writer and in
\* _initialize_group_sync_writers, which the getter calls with the lock held
\* when there is a packet handler and no writer
R_sync_lock ==
    /\ req.op \in SyncOps /\ req.pc \in {"y_get", "y_init"}
    /\ ~group_sync_write_lock
    /\ IF req.pc = "y_init"
       THEN /\ group_sync_writers' = TRUE
            /\ group_sync_write_lock' = FALSE
            /\ ReqOnly([req EXCEPT !.pc = "y_add"])
       ELSE IF ~group_sync_writers /\ packet_handler
       THEN /\ group_sync_write_lock' = TRUE
            /\ ReqOnly([req EXCEPT !.pc = "y_init"])
            /\ UNCHANGED group_sync_writers
       ELSE /\ IF group_sync_writers THEN ReqOnly([req EXCEPT !.pc = "y_add"])
               ELSE ReqOnly(Fail(req, "COMM_TX_ERROR"))
            /\ UNCHANGED <<group_sync_writers, group_sync_write_lock>>
    /\ UNCHANGED <<is_connected, port_open, monitoring_active, inBus, nreq, hist,
                   discovered_servos, eeprom_id, packet_handler, connection_status>>

\* what addParam may answer for id: never True for an id the batch holds
AddOutcomes(batch, id) == IF id \in batch THEN {FALSE} ELSE BOOLEAN

\* the effective_speed whose two bytes syncWriteContinuousSpeed gives addParam
SyncEffectiveSpeed(speed) ==
    LET a == IF speed < 0 THEN 0 - speed ELSE speed
    IN  IF speed < 0 THEN a + CwOffset ELSE a

\* the parameter of one servo: a position, or the speed and its speed word
SyncParam(rq, speed) ==
    IF rq.op = "sync_speed"
    THEN [rq EXCEPT !.tx = @ \cup {<<"speed", speed, SyncEffectiveSpeed(speed)>>}]
    ELSE rq

\* one turn of "for servo_id, ... in servo_data"
R_sync_add ==
    /\ req.op \in SyncOps /\ req.pc = "y_add"
    /\ req.data # <<>>
    /\ LET id == Head(req.data)
       IN  \E ok \in AddOutcomes(req.found, id), speed \in WideSpeeds :
              /\ req.op = "sync_speed" \/ speed = 0
              /\ ReqOnly([Sent(SyncParam(req, speed), "addParam", id, ok) EXCEPT
                             !.found = IF ok THEN @ \cup {id} ELSE @,
                             !.data = Tail(@)])
    /\ BusFrame /\ UNCHANGED eeprom_id

\* "if not added_servos: return COMM_TX_ERROR"
R_sync_added ==
    /\ req.op \in SyncOps /\ req.pc = "y_add"
    /\ req.data = <<>>
    /\ IF req.found = {} THEN ReqOnly(Fail(req, "COMM_TX_ERROR"))
       ELSE ReqOnly([req EXCEPT !.pc = "y_tx"])
    /\ BusFrame /\ UNCHANGED eeprom_id

\* a frame that carries only the first servo of the batch
FrameOfFirst(batch, ok) ==
    {<<"txPacket", id, ok>> : id \in {i \in batch : \A j \in batch : i <= j}}

\* the frame txPacket sends: one entry for each servo of the batch
Frame(batch, ok) == {<<"txPacket", id, ok>> : id \in batch}

\* "for attempt in range(max_retries)": txPacket, at most twice
R_sync_tx ==
    /\ req.op \in SyncOps /\ req.pc = "y_tx"
    /\ \E ok \in BOOLEAN :
          LET rq == [req EXCEPT !.tx = @ \cup Frame(req.found, ok)]
          IN  IF ok THEN ReqOnly([rq EXCEPT !.pc = "ret", !.result = "ok",
                                            !.success = TRUE])
              ELSE IF req.attempt < max_retries - 1
              THEN ReqOnly([rq EXCEPT !.attempt = @ + 1])
              ELSE ReqOnly(Fail(rq, "txPacket failed"))
    /\ BusFrame /\ UNCHANGED eeprom_id

(***************************************************************************)
(* get_servo_telemetry, register by register.                              *)
(***************************************************************************)
\* the registers in the order they are read
TelemetryFields ==
    <<"position", "speed", "moving", "goal_position", "goal_speed",
      "acceleration", "mode", "voltage", "temperature", "current", "torque",
      "load">>

\* the registers whose failed read is appended to errors; the others put
\* "N/A" in the telemetry
ErrorFields == {"position", "speed", "voltage", "temperature"}

R_registers(id) ==
    /\ Idle
    /\ nreq' = nreq + 1
    /\ IF ~is_connected
       THEN ReqOnly(Fail(Returned("registers", id, "fail"), "Not connected"))
       ELSE ReqOnly([IdleReq EXCEPT !.op = "registers", !.pc = "g_read", !.id = id,
                                    !.data = TelemetryFields])
    /\ UNCHANGED <<is_connected, port_open, monitoring_active, inBus, hist,
                   discovered_servos, eeprom_id, packet_handler, connection_status, group_sync_writers, group_sync_write_lock>>

\* the entry a register's third failed read leaves: an error message or "N/A"
FailedRead(rq, field) ==
    IF field \in ErrorFields THEN [rq EXCEPT !.errors = @ \cup {field}]
    ELSE [rq EXCEPT !.found = @ \cup {<<field, "N/A">>}]

\* "for attempt in range(3)": one read of the register at the head of the list
R_register_read ==
    /\ req.op = "registers" /\ req.pc = "g_read"
    /\ req.data # <<>>
    /\ LET field == Head(req.data)
           next  == [req EXCEPT !.data = Tail(@), !.attempt = 0]
       IN  \E ok \in BOOLEAN :
              IF ok THEN ReqOnly([next EXCEPT !.found = @ \cup {<<field, "value">>}])
              ELSE IF req.attempt < 2 THEN ReqOnly([req EXCEPT !.attempt = @ + 1])
              ELSE ReqOnly(FailedRead(next, field))
    /\ BusFrame /\ UNCHANGED eeprom_id

\* "if errors: degraded else: excellent", and the reply
R_registers_done ==
    /\ req.op = "registers" /\ req.pc = "g_read"
    /\ req.data = <<>>
    /\ ReqOnly([req EXCEPT
          !.pc = "ret", !.result = "ok", !.success = TRUE,
          !.found = @ \cup {<<"communication_status",
                              IF req.errors # {} THEN "degraded" ELSE "excellent">>}])
    /\ BusFrame /\ UNCHANGED eeprom_id

(***************************************************************************)
(* check_servo_communication_health(id): ping, position read, torque test. *)
(* found holds the entries of health_status that are True.                 *)
(***************************************************************************)
R_health(id) ==
    /\ Idle
    /\ nreq' = nreq + 1
    /\ IF ~is_connected
       THEN ReqOnly(Fail(Returned("health", id, "fail"), "Not connected"))
       ELSE ReqOnly([IdleReq EXCEPT !.op = "health", !.pc = "h_ping", !.id = id])
    /\ UNCHANGED <<is_connected, port_open, monitoring_active, inBus, hist,
                   discovered_servos, eeprom_id, packet_handler, connection_status, group_sync_writers, group_sync_write_lock>>

\* one transaction of the check: on success `entry' is recorded (when the
\* step has one) and the check goes on at `good', else at `bad'
HealthStep(here, kind, entry, good, bad) ==
    /\ req.op = "health" /\ req.pc = here
    /\ \E ok \in BOOLEAN :
          ReqOnly([Sent(req, kind, req.id, ok) EXCEPT
                      !.pc = IF ok THEN good ELSE bad,
                      !.found = IF ok /\ entry # "none" THEN @ \cup {entry} ELSE @])
    /\ BusFrame /\ UNCHANGED eeprom_id

R_health_ping == HealthStep("h_ping", "ping", "ping_status", "h_pos", "h_pos")

R_health_pos == HealthStep("h_pos", "ReadPos", "position_read", "h_torque", "h_torque")

\* read1ByteTxRx(servo_id, STS_TORQUE_ENABLE)
R_health_torque == HealthStep("h_torque", "read_torque", "none", "h_off", "h_end")

\* write1ByteTxRx(servo_id, STS_TORQUE_ENABLE, 0)
R_health_off == HealthStep("h_off", "write_torque_0", "none", "h_restore", "h_end")

\* write1ByteTxRx(servo_id, STS_TORQUE_ENABLE, torque_status)
R_health_restore ==
    HealthStep("h_restore", "write_torque", "torque_control", "h_end", "h_end")

overall_health(health_status) ==
    IF {"ping_status", "position_read", "torque_control"} \subseteq health_status
    THEN "excellent"
    ELSE IF {"ping_status", "position_read"} \subseteq health_status THEN "good"
    ELSE IF "ping_status" \in health_status THEN "poor"
    ELSE "critical"

R_health_end ==
    /\ req.op = "health" /\ req.pc = "h_end"
    /\ ReqOnly([req EXCEPT !.pc = "ret", !.result = "ok", !.success = TRUE,
                           !.data = <<overall_health(req.found)>>])
    /\ BusFrame /\ UNCHANGED eeprom_id

(***************************************************************************)
(* force_communication_recovery([id]) and the recovery ladder              *)
(* _robust_servo_communication_recovery.                                   *)
(***************************************************************************)
\* the ladder with its first two strategies the other way round
recovery_strategies_torque_first ==
    <<"torque_reset", "ping", "baudrate_check", "voltage_reset", "position_hold">>

recovery_strategies ==
    <<"ping", "torque_reset", "baudrate_check", "voltage_reset", "position_hold">>

\* range(5) of the ping and the voltage strategy, range(3) of the torque
\* strategy, of the attempts per strategy and of the cycles per servo
PingAttempts == 5
TorqueCycles == 3
VoltageAttempts == 5
StrategyAttempts == 3
RecoveryCycles == 3

\* what the bus answers to the transactions of one strategy call, in the
\* order they are issued (three per torque cycle), and the baud rate code
\* the servo reports
BusAnswers == [1..(3 * TorqueCycles) -> BOOLEAN]
BaudCodes == {0, 1}

_recovery_strategy_ping(a) == \E i \in 1..PingAttempts : a[i]

\* disable torque, enable torque, read the position: all three in one cycle
_recovery_strategy_torque_reset(a) ==
    \E c \in 0..(TorqueCycles - 1) : a[3 * c + 1] /\ a[3 * c + 2] /\ a[3 * c + 3]

\* True only when a wrong baud rate was read and corrected
_recovery_strategy_baudrate_check(a, baudrate) == a[1] /\ baudrate # 1 /\ a[2]

_recovery_strategy_voltage_reset(a) == \E i \in 1..VoltageAttempts : a[i]

\* ReadPos, then WritePosEx of the position read
_recovery_strategy_position_hold(a) == a[1] /\ a[2]

\* strategy(servo_id)
Strategy(name, a, baudrate) ==
    CASE name = "ping"           -> _recovery_strategy_ping(a)
      [] name = "torque_reset"   -> _recovery_strategy_torque_reset(a)
      [] name = "baudrate_check" -> _recovery_strategy_baudrate_check(a, baudrate)
      [] name = "voltage_reset"  -> _recovery_strategy_voltage_reset(a)
      [] name = "position_hold"  -> _recovery_strategy_position_hold(a)

\* one run of the ladder starts
LadderCall(rq) ==
    [rq EXCEPT !.pc = "v_call", !.data = recovery_strategies, !.attempt = 0,
               !.calls = <<>>, !.result = "none"]

R_recover(id) ==
    /\ Idle
    /\ nreq' = nreq + 1
    /\ IF ~is_connected
       THEN ReqOnly(Fail(Returned("recovery", id, "fail"), "Not connected"))
       ELSE ReqOnly(LadderCall([IdleReq EXCEPT !.op = "recovery", !.id = id]))
    /\ UNCHANGED <<is_connected, port_open, monitoring_active, inBus, hist,
                   discovered_servos, eeprom_id, packet_handler, connection_status, group_sync_writers, group_sync_write_lock>>

\* "for attempt in range(3): if strategy(servo_id): return True"
R_ladder_call ==
    /\ req.op = "recovery" /\ req.pc = "v_call"
    /\ req.data # <<>>
    /\ \E a \in BusAnswers, baudrate \in BaudCodes :
          LET name == Head(req.data)
              ok   == Strategy(name, a, baudrate)
              rq   == [req EXCEPT !.calls = Append(@, <<name, ok>>)]
          IN  IF ok THEN ReqOnly([rq EXCEPT !.pc = "v_ret", !.result = "ok"])
              ELSE IF req.attempt < StrategyAttempts - 1
              THEN ReqOnly([rq EXCEPT !.attempt = @ + 1])
              ELSE ReqOnly([rq EXCEPT !.attempt = 0, !.data = Tail(@)])
    /\ BusFrame /\ UNCHANGED eeprom_id

\* the list is exhausted: return False
R_ladder_exhausted ==
    /\ req.op = "recovery" /\ req.pc = "v_call"
    /\ req.data = <<>>
    /\ ReqOnly([req EXCEPT !.pc = "v_ret", !.result = "fail"])
    /\ BusFrame /\ UNCHANGED eeprom_id

\* "for cycle in range(3)": the ladder has returned
R_recover_cycle ==
    /\ req.op = "recovery" /\ req.pc = "v_ret"
    /\ IF req.result = "ok"
       THEN ReqOnly([req EXCEPT !.pc = "ret", !.success = TRUE])
       ELSE IF req.arg < RecoveryCycles - 1
       THEN ReqOnly(LadderCall([req EXCEPT !.arg = @ + 1]))
       ELSE ReqOnly([req EXCEPT !.pc = "ret", !.success = TRUE,
                                !.error = "Recovery failed after 3 cycles"])
    /\ BusFrame /\ UNCHANGED eeprom_id

(***************************************************************************)
(* _monitoring_worker: one pass scans the records, then checks each id     *)
(* found running.                                                          *)
(***************************************************************************)
SupFrame == UNCHANGED <<is_connected, port_open, monitoring_active, inBus, nreq, hist, discovered_servos, eeprom_id, packet_handler, connection_status, group_sync_writers, group_sync_write_lock>>

SupStep(handles, pt, th, sp) == Commit(movement_patterns, handles, pt, th, req, sp)

\* for servo_id, pattern in self.movement_patterns.items(): the loop leaves
\* its variable pattern bound to the last record
Sup_scan ==
    /\ sup.pc = "scan"
    /\ monitoring_active
    /\ LET active == SeqFilter(movement_patterns, pat)
           n == Len(movement_patterns)
       IN  SupStep(continuous_movement_threads, pat, thr,
                   [pc      |-> IF active = <<>> THEN "scan" ELSE "check",
                    active  |-> active,
                    pattern |-> IF n = 0 THEN sup.pattern ELSE movement_patterns[n][2],
                    repair  |-> {id \in Servos : /\ HasRunning(id)
                                                 /\ ~Alive(continuous_movement_threads[id])}])
    /\ SupFrame

SupNext(sp) ==
    IF Len(sp.active) > 1
    THEN [sp EXCEPT !.pc = "check", !.active = Tail(@)]
    ELSE [sp EXCEPT !.pc = "scan", !.active = <<>>]

\* thread missing or dead: recover the servo, then restart the thread with
\* the stored pattern, or mark the record stopped
Sup_check ==
    /\ sup.pc = "check"
    /\ LET id == Head(sup.active)
           h  == continuous_movement_threads[id]
           p  == Get(movement_patterns, id)
       IN  IF Alive(h)
           THEN SupStep(continuous_movement_threads, pat, thr, [sup EXCEPT !.pc = "health"])
           ELSE IF p = NoRef
           THEN \* KeyError, caught: on to the next servo
                SupStep(continuous_movement_threads, pat, thr, SupNext(sup))
           ELSE \E outcome \in RecoveryOutcomes :
                  IF outcome # Absent
                  THEN /\ FreeThreadSlots # {}
                       /\ LET t == NewThreadSlot
                          IN  SupStep([continuous_movement_threads EXCEPT ![id] = t],
                                      [pat EXCEPT ![p] = AfterRecovery(@, outcome)],
                                      [thr EXCEPT ![t] = NewWorker(id, p)],
                                      [sup EXCEPT !.pc = "health", !.pattern = p])
                  ELSE SupStep(continuous_movement_threads,
                               [pat EXCEPT ![p].running = FALSE], thr,
                               [sup EXCEPT !.pc = "health", !.pattern = p])
    /\ SupFrame

\* the health check of the pass, on the pattern the local variable holds
Sup_health ==
    /\ sup.pc = "health"
    /\ \E outcome \in RecoveryOutcomes :
          SupStep(continuous_movement_threads,
                  [pat EXCEPT ![sup.pattern] = HealthCheck(@, outcome)],
                  thr, SupNext(sup))
    /\ SupFrame

(***************************************************************************)
(* The controller after construction, and its specifications.              *)
(***************************************************************************)
Init ==
    /\ is_connected = FALSE
    /\ port_open = FALSE
    /\ movement_patterns = <<>>
    /\ continuous_movement_threads = [id \in Servos |-> NoRef]
    /\ pat = [p \in PatIds |-> FreePat]
    /\ thr = [t \in ThreadIds |-> FreeThr]
    /\ monitoring_active = FALSE
    /\ discovered_servos = {}
    /\ eeprom_id = [d \in Servos |-> d]
    /\ packet_handler = FALSE
    /\ connection_status = NotConnected
    /\ group_sync_writers = FALSE
    /\ group_sync_write_lock = FALSE
    /\ sup = IdleSup
    /\ req = IdleReq
    /\ inBus = {}
    /\ nreq = 0
    /\ hist = [prevStop |-> 0,
               pauseRet |-> [id \in Servos |-> "none"],
               stopped  |-> [id \in Servos |-> FALSE],
               ids      |-> [d \in Servos |-> d]]

\* the steps of a worker's loop body
WorkerBody(t) ==
    \/ W_init(t)
    \/ W_stop1(t)
    \/ W_pause(t)
    \/ W_stop2(t)
    \/ W_calc(t)
    \/ W_stop3(t)
    \/ W_clamp(t)
    \/ W_stop4(t)
    \/ W_retry(t)
    \/ W_exec(t)
    \/ W_exec_rx(t)
    \/ W_update(t)

\* a worker followed for MaxStepsMotion iterations: it does not get to its
\* first health check
Worker(t) ==
    \/ WorkerBody(t)
    \/ W_loop(t, MaxStepsMotion, MaxCycles)
    \/ W_failed(t)

\* the same where no request sets a stop flag
WorkerUnpaused(t) ==
    \/ WorkerBody(t)
    \/ W_loop(t, MaxStepsMotion, MaxCycles)

\* a worker followed until it has counted MaxCycles cycles (a rotation
\* counts none: it is followed without limit), where no request sets a stop flag
WorkerLong(t) ==
    \/ WorkerBody(t)
    \/ W_loop(t, health_check_interval, MaxCycles)
    \/ W_health(t)

\* "while self.monitoring_active": the flag is down, the thread ends
Sup_exit ==
    /\ sup.pc = "scan"
    /\ ~monitoring_active
    /\ SupStep(continuous_movement_threads, pat, thr, IdleSup)
    /\ SupFrame

\* ---- start_periodic_monitoring / stop_periodic_monitoring ---------------
\* a live monitoring thread: "already active", and nothing is set
R_mon_start ==
    /\ Idle
    /\ nreq' = nreq + 1
    /\ IF sup.pc # "none"
       THEN /\ ReqOnly(Returned("mon_start", 0, "ok"))
            /\ UNCHANGED monitoring_active
       ELSE /\ Commit(movement_patterns, continuous_movement_threads, pat, thr,
                      Returned("mon_start", 0, "ok"), [IdleSup EXCEPT !.pc = "scan"])
            /\ monitoring_active' = TRUE
    /\ UNCHANGED <<is_connected, port_open, inBus, hist, discovered_servos, eeprom_id, packet_handler, connection_status, group_sync_writers, group_sync_write_lock>>

\* the flag is lowered, then the thread is joined for at most two seconds
R_mon_stop ==
    /\ Idle
    /\ nreq' = nreq + 1
    /\ monitoring_active' = FALSE
    /\ ReqOnly([IdleReq EXCEPT !.op = "mon_stop", !.pc = "m_join"])
    /\ UNCHANGED <<is_connected, port_open, inBus, hist, discovered_servos, eeprom_id, packet_handler, connection_status, group_sync_writers, group_sync_write_lock>>

\* join(timeout=2.0) returns, whether the thread has ended or not
R_mon_join ==
    /\ req.op = "mon_stop" /\ req.pc = "m_join"
    /\ ReqOnly(Returned("mon_stop", 0, "ok"))
    /\ UNCHANGED <<is_connected, port_open, monitoring_active, inBus, nreq, hist, discovered_servos, eeprom_id, packet_handler, connection_status, group_sync_writers, group_sync_write_lock>>

Supervisor ==
    \/ Sup_scan
    \/ Sup_check
    \/ Sup_health

\* the steps of a start on an id that has no thread
FirstStartSteps ==
    \/ R_start_threads
    \/ R_start_spawn
    \/ R_start_mon
    \/ R_done

StartSteps ==
    \/ FirstStartSteps
    \/ R_start_join

\* the servo the single-servo specifications operate
FirstServo == {1}

Connecting ==
    \/ R_connect
    \/ R_connect_open

\* every request of the session on one servo, short runs of the workers
Next ==
    \/ Connecting
    \/ R_disconnect
    \/ \E id \in FirstServo, cfg \in MotionConfigs : R_start(id, cfg)
    \/ StartSteps
    \/ \E id \in FirstServo : R_stop(id)
    \/ R_stop_join
    \/ R_stop_clean
    \/ \E id \in FirstServo : R_pause(id)
    \/ R_pause_verify
    \/ R_pause_hold
    \/ R_pause_clear
    \/ \E id \in FirstServo : R_resume(id)
    \/ R_force_stop
    \/ R_force_stop_clean
    \/ \E id \in FirstServo : R_telemetry(id)
    \/ R_telemetry_rx
    \/ R_telemetry_tx
    \/ \E t \in ThreadIds : Worker(t)
    \/ Supervisor

Spec == Init /\ [][Next]_vars

\* motions are started on several servos and never interfered with
NextPair ==
    \/ Connecting
    \/ \E id \in Servos, cfg \in MotionConfigs :
          /\ ~HasKey(movement_patterns, id)
          /\ R_start(id, cfg)
    \/ StartSteps
    \/ \E t \in ThreadIds : WorkerUnpaused(t)
    \/ Supervisor

SpecPair == Init /\ [][NextPair]_vars

\* one sweep is started and its worker runs long enough to turn round and
\* to be health-checked; the monitoring thread does not get to run
NextSweep ==
    \/ Connecting
    \/ /\ movement_patterns = <<>>
       /\ \E id \in FirstServo, cfg \in SweepConfigs : R_start(id, cfg)
    \/ FirstStartSteps
    \/ \E t \in ThreadIds : WorkerLong(t)

SpecSweep == Init /\ [][NextSweep]_vars

\* one rotation is started, in either direction, and its worker runs
NextRotation ==
    \/ Connecting
    \/ /\ movement_patterns = <<>>
       /\ \E id \in FirstServo, cfg \in DirectedRotations : R_start(id, cfg)
    \/ FirstStartSteps
    \/ \E t \in ThreadIds : WorkerLong(t)

SpecRotation == Init /\ [][NextRotation]_vars

\* one full-range sweep is started and angle limits are enabled on it while
\* it runs
NextLimits ==
    \/ Connecting
    \/ /\ movement_patterns = <<>>
       /\ \E id \in FirstServo, cfg \in MotionConfigs \ RotationConfigs : R_start(id, cfg)
    \/ FirstStartSteps
    \/ \E id \in FirstServo, a \in AngleLimitPairs : R_limits(id, a[1], a[2])
    \/ R_limits_rx
    \/ \E t \in ThreadIds : WorkerLong(t)

SpecLimits == Init /\ [][NextLimits]_vars

\* rotations of one servo are started and stopped; the workers run without
\* limit, and the scheduler runs every thread that can take a step
NextFair ==
    \/ Connecting
    \/ \E id \in FirstServo, cfg \in RotationConfigs : R_start(id, cfg)
    \/ StartSteps
    \/ \E id \in FirstServo : R_stop(id)
    \/ R_stop_join
    \/ R_stop_clean
    \/ R_force_stop
    \/ R_force_stop_clean
    \/ \E t \in ThreadIds : WorkerLong(t)

Fairness == \A t \in ThreadIds : WF_vars(WorkerLong(t))

SpecFair == Init /\ [][NextFair]_vars /\ Fairness

\* the servos of the bus are discovered and renumbered; nothing moves
ChangeIdSteps ==
    \/ R_change_ping_old
    \/ R_change_ping_new
    \/ R_change_unlock
    \/ R_change_write
    \/ R_change_lock
    \/ R_change_verify

NextBus ==
    \/ Connecting
    \/ R_disconnect
    \/ R_done
    \/ \E r \in DiscoverRanges : R_discover(r[1], r[2])
    \/ R_discover_ping
    \/ R_discover_done
    \/ \E old_id \in IdInputs, new_id \in IdInputs : R_change_id(old_id, new_id)
    \/ ChangeIdSteps

SpecBus == Init /\ [][NextBus]_vars

\* group sync writes, before and after a connect
NextSync ==
    \/ Connecting
    \/ R_disconnect
    \/ R_done
    \/ \E op \in SyncOps, servo_data \in SyncBatches : R_sync(op, servo_data)
    \/ R_sync_lock
    \/ R_sync_add
    \/ R_sync_added
    \/ R_sync_tx

SpecSync == Init /\ [][NextSync]_vars

\* telemetry requests, before and after a connect
NextTelemetry ==
    \/ Connecting
    \/ R_done
    \/ \E id \in FirstServo : R_registers(id)
    \/ R_register_read
    \/ R_registers_done

SpecTelemetry == Init /\ [][NextTelemetry]_vars

\* one motion is started, then paused and resumed, the resumes also while a
\* pause is in flight
NextPause ==
    \/ Connecting
    \/ /\ movement_patterns = <<>>
       /\ \E id \in FirstServo, cfg \in MotionConfigs : R_start(id, cfg)
    \/ FirstStartSteps
    \/ \E id \in FirstServo : R_pause(id)
    \/ R_pause_verify
    \/ R_pause_hold
    \/ R_pause_clear
    \/ \E id \in FirstServo : R_resume(id)
    \/ \E id \in FirstServo : R_resume_other(id)
    \/ \E t \in ThreadIds : Worker(t)

SpecPause == Init /\ [][NextPause]_vars

\* motions without angle constraints are started on servo ids from 0 on
StartIds == {0} \cup FirstServo

NextZero ==
    \/ Connecting
    \/ /\ movement_patterns = <<>>
       /\ \E id \in StartIds, cfg \in {c \in MotionConfigs : ~c.ac_enabled} :
             R_start(id, cfg)
    \/ FirstStartSteps
    \/ \E t \in ThreadIds : WorkerUnpaused(t)

SpecZero == Init /\ [][NextZero]_vars

\* a rotation of any speed is started and its worker runs, and speeds are
\* written to groups of servos
NextSpeed ==
    \/ Connecting
    \/ /\ movement_patterns = <<>>
       /\ \E id \in FirstServo, cfg \in WideRotations : R_start(id, cfg)
    \/ FirstStartSteps
    \/ \E t \in ThreadIds : WorkerUnpaused(t)
    \/ \E servo_data \in SyncBatches : R_sync("sync_speed", servo_data)
    \/ R_sync_lock
    \/ R_sync_add
    \/ R_sync_added
    \/ R_sync_tx

SpecSpeed == Init /\ [][NextSpeed]_vars

\* monitoring is started and stopped, by request and by a start of motion,
\* while the monitoring thread makes its passes
NextMonitor ==
    \/ Connecting
    \/ /\ movement_patterns = <<>>
       /\ \E id \in FirstServo, cfg \in MotionConfigs : R_start(id, cfg)
    \/ FirstStartSteps
    \/ \E t \in ThreadIds : WorkerUnpaused(t)
    \/ R_mon_start
    \/ R_mon_stop
    \/ R_mon_join
    \/ Supervisor
    \/ Sup_exit

SpecMonitor == Init /\ [][NextMonitor]_vars

\* the EEPROM settings of the servos are written, before and after a connect
NextEeprom ==
    \/ Connecting
    \/ R_done
    \/ \E op \in EepromOps, id \in Servos : R_eeprom(op, id)
    \/ R_eeprom_unlock
    \/ R_eeprom_write
    \/ R_eeprom_lock

SpecEeprom == Init /\ [][NextEeprom]_vars

\* communication health checks of the servos, before and after a connect
NextHealth ==
    \/ Connecting
    \/ R_done
    \/ \E id \in Servos : R_health(id)
    \/ R_health_ping
    \/ R_health_pos
    \/ R_health_torque
    \/ R_health_off
    \/ R_health_restore
    \/ R_health_end

SpecHealth == Init /\ [][NextHealth]_vars

\* forced recoveries of the servos, before and after a connect
NextRecovery ==
    \/ Connecting
    \/ R_done
    \/ \E id \in Servos : R_recover(id)
    \/ R_ladder_call
    \/ R_ladder_exhausted
    \/ R_recover_cycle

SpecRecovery == Init /\ [][NextRecovery]_vars

(***************************************************************************)
(* Properties.                                                             *)
(***************************************************************************)
\* the command the worker's step puts on the bus moves the servo
MotionCommand(p) == p.type = "sweep" \/ RotationWireSpeed(p) # 0

\* worker t passes the last stop-flag check and goes on to send its command
BeginsCommand(t) ==
    /\ thr[t].pc = "retry"
    /\ thr'[t].pc = "exec"
    /\ MotionCommand(pat[thr[t].pattern])

\* C1: once pause(id) has returned, and until a resume, stop or other request
\* names id, no worker of id begins a motion command -- whether the writes
\* issued by pause succeeded or failed.
C1_NoMotionAfterPause ==
    [][\A t \in ThreadIds :
          BeginsCommand(t) => hist.pauseRet[thr[t].servo_id] = "none"]_vars

\* C2: at most one live thread runs the motion worker of a servo id.
C2_OneWorkerPerServo ==
    \A id \in Servos : Cardinality(LiveWorkers(id)) <= 1

\* C3: at most one thread is inside a packet_handler transaction.
C3_BusTransactionsSerialised ==
    Cardinality(inBus) <= 1

\* C4: when stop(id) has returned, movement_patterns holds no record of id.
C4_NoRecordAfterStop ==
    (req.op = "stop" /\ req.pc = "ret") => ~HasKey(movement_patterns, req.id)

\* C5: when start(id) has returned success, the stored record is running and
\* the thread stored for id is alive and runs on that record; every other live
\* worker of id has had running cleared on its record.
C5_StartLeavesOneRunningWorker ==
    (req.op = "start" /\ req.pc = "ret" /\ req.result = "ok") =>
        LET p == Get(movement_patterns, req.id)
            h == continuous_movement_threads[req.id]
        IN  /\ p # NoRef
            /\ pat[p].running
            /\ Alive(h)
            /\ thr[h].pattern = p
            /\ \A t \in LiveWorkers(req.id) \ {h} : ~pat[thr[t].pattern].running

\* C6: the port is closed only when no worker is live, and a worker puts a
\* command on the bus only while the controller is connected.
C6_WorkersStoppedBeforeClose ==
    [][/\ (port_open /\ ~port_open') => \A t \in ThreadIds : ~Alive(t)
       /\ \A t \in ThreadIds :
             (thr[t].pc = "exec" /\ thr'[t].pc = "exec_rx") => is_connected]_vars

\* C7: a worker that is live when stop(id) or force_stop_all has cleared
\* running for its id eventually exits.
C7_StoppedWorkersExit ==
    \A t \in ThreadIds :
        (Alive(t) /\ hist.stopped[thr[t].servo_id]) ~> ~Alive(t)

\* worker t, running on pattern p, ends in this step
Exits(t, p) == Alive(t) /\ thr[t].pattern = p /\ thr'[t].pc \in {"dead", "free"}

\* C8: with no pause, stop, force stop or replacing start issued, running is
\* never cleared on a record by the outcome of a bus transaction: the only
\* steps that clear it are steps of a request and the end of its own worker.
C8_TransportFailureNeverStops ==
    [][\A p \in PatIds :
          (pat[p].running /\ pat'[p].used /\ ~pat'[p].running) =>
              \/ req' # req
              \/ \E t \in ThreadIds : Exits(t, p)]_vars

\* the sweep has counted the cycles its start request asked for
TargetReached(p) ==
    p.type = "sweep" /\ p.req_cycles >= 0 /\ p.cycle_count >= p.req_cycles

\* C9: once the cycle count of a sweep has reached the finite number of
\* cycles asked for, its worker puts no further setpoint on the bus.
C9_FiniteSweepStops ==
    \A t \in ThreadIds :
        thr[t].pc = "exec_rx" => ~TargetReached(pat[thr[t].pattern])

\* C10: the current_position of every sweep record lies within the bounds the
\* start request gave, and within the angle limits when these are enabled.
C10_SweepPositionInBounds ==
    \A i \in 1..Len(movement_patterns) :
        LET p == pat[movement_patterns[i][2]]
        IN  p.type = "sweep" =>
              IF p.ac_enabled
              THEN p.ac_min <= p.current_position /\ p.current_position <= p.ac_max
              ELSE /\ p.min_position <= p.current_position
                   /\ p.current_position <= p.max_position

\* C11: every position a worker sends with WritePosEx lies in 0..4095 and,
\* when the angle limits of its record are enabled, between min and max.
C11_SentPositionClamped ==
    \A t \in ThreadIds :
        LET p == pat[thr[t].pattern]
        IN  (thr[t].pc = "exec_rx" /\ p.type = "sweep") =>
              /\ ValidPos(thr[t].wire)
              /\ p.ac_enabled => (p.ac_min <= thr[t].wire /\ thr[t].wire <= p.ac_max)

\* C12: while servo id is paused (pause(id) has returned success and no later
\* request names id), its record is still running and its worker is alive,
\* so that a resume finds a worker to resume.
C12_PauseKeepsWorker ==
    \A id \in Servos :
        hist.pauseRet[id] = "ok" =>
            /\ HasRunning(id)
            /\ Alive(continuous_movement_threads[id])

\* C13: when change_servo_id(old, new) has returned success, a servo answers
\* at new and no servo answers at old.
C13_ChangeIdMovesServo ==
    (req.op = "change_id" /\ req.pc = "ret" /\ req.result = "ok") =>
        /\ Answers(req.arg)
        /\ ~Answers(req.id)

\* change_servo_id(1, 3) has returned success
C13_Changed ==
    /\ req.op = "change_id" /\ req.pc = "ret" /\ req.result = "ok"
    /\ req.id = 1 /\ req.arg = 3
    /\ <<"write", 1, TRUE>> \in req.tx

\* the conditions under which change_servo_id must refuse
ChangeRefused ==
    \/ ~ValidId(req.id)
    \/ ~ValidId(req.arg)
    \/ req.id = req.arg
    \/ <<"ping", req.id, FALSE>> \in req.tx
    \/ <<"ping", req.arg, TRUE>> \in req.tx

\* C14: change_servo_id on a connected controller returns an error and has
\* issued no EEPROM unlock and no register write when an id is outside
\* 0..253, when old = new, when old did not answer its ping, or when new
\* answered its ping.
C14_ChangeIdRefuses ==
    (req.op = "change_id" /\ req.error # "Not connected" /\ ChangeRefused) =>
        /\ req.pc = "ret"
        /\ req.result = "fail"
        /\ \A x \in req.tx : x[1] \notin {"unlock", "write", "lock"}

\* change_servo_id(1, 2) was refused because servo 2 answered
C14_RefusedInUse ==
    /\ req.op = "change_id" /\ req.pc = "ret"
    /\ req.id = 1 /\ req.arg = 2
    /\ <<"ping", 2, TRUE>> \in req.tx

\* C15: a request other than connect and disconnect that arrives while the
\* controller is not connected is answered with success False and the error
\* "Not connected", issues no bus transaction and leaves the session state
\* as it was.
C15_NotConnectedFails ==
    [][(/\ req.op = "none"
        /\ req'.op \notin {"none", "connect", "disconnect"}
        /\ ~is_connected)
       => /\ req'.pc = "ret"
          /\ ~req'.success
          /\ req'.error = "Not connected"
          /\ req'.tx = {}
          /\ UNCHANGED <<is_connected, port_open, movement_patterns,
                         continuous_movement_threads, pat, thr, inBus,
                         monitoring_active, discovered_servos>>]_vars

\* C16: the controller is connected only when openPort and setBaudRate have
\* both succeeded; a connect whose openPort failed returns failure with
\* is_connected false, and one whose setBaudRate failed has closed the port
\* and returns failure with is_connected false.
C16_ConnectedOnlyAfterOpenAndBaud ==
    /\ is_connected => port_open
    /\ (req.op = "connect" /\ req.pc = "c_open") => ~is_connected
    /\ (req.op = "connect" /\ req.pc = "ret") =>
          /\ is_connected <=>
                {<<"openPort", 0, TRUE>>, <<"setBaudRate", 0, TRUE>>} \subseteq req.tx
          /\ req.success <=> is_connected
          /\ <<"setBaudRate", 0, FALSE>> \in req.tx =>
                (~port_open /\ <<"closePort", 0, TRUE>> \in req.tx)

\* a connect after the first request has failed at setBaudRate
C16_BaudFailed ==
    /\ req.op = "connect" /\ req.pc = "ret"
    /\ <<"setBaudRate", 0, FALSE>> \in req.tx
    /\ nreq > 1

\* the ids whose ping the running discovery saw answered
PingsAnswered == {x[2] : x \in {y \in req.tx : y[1] = "ping" /\ y[3]}}

\* C17: when discover_servos has returned, the discovered map holds exactly
\* the ids whose ping succeeded, whatever it held before; and the map changes
\* only in the step that ends a discovery, or when a disconnect empties it.
C17_DiscoveredExactlyPinged ==
    /\ [](req.op = "discover" /\ req.pc = "ret" /\ req.success
            => discovered_servos = PingsAnswered)
    /\ [][discovered_servos' # discovered_servos =>
            \/ /\ req.op = "discover" /\ req'.pc = "ret"
               /\ discovered_servos' = PingsAnswered
            \/ /\ discovered_servos' = {}
               /\ req'.op \in {"connect", "disconnect"}]_vars

\* a discovery made after servo 1 was renumbered to 3 has returned the
\* servos at 2 and 3
C17_EntryDropped ==
    /\ req.op = "discover" /\ req.pc = "ret"
    /\ discovered_servos = {2, 3}
    /\ eeprom_id[1] = 3

\* C18: when force_stop_all_movements has returned on a connected controller,
\* no pattern record is left with running set, and movement_patterns and
\* continuous_movement_threads are both empty.
C18_ForceStopClearsAll ==
    (req.op = "force_stop" /\ req.pc = "ret" /\ req.success) =>
        /\ movement_patterns = <<>>
        /\ \A id \in Servos : continuous_movement_threads[id] = NoRef
        /\ \A p \in PatIds : pat[p].used => ~pat[p].running

\* C19: a stop_continuous_movement([id]) that directly follows a successful
\* stop_continuous_movement([id]) returns at once, reports success for id,
\* sends nothing and changes nothing in the session.
C19_SecondStopSucceeds ==
    [][(req.op = "none" /\ req'.op = "stop" /\ hist.prevStop = req'.id)
       => /\ req'.pc = "ret"
          /\ req'.success
          /\ req'.result = "ok"
          /\ UNCHANGED <<is_connected, movement_patterns,
                         continuous_movement_threads, pat, thr, inBus>>]_vars

\* C20: the speed word a rotation step sends with WriteSpec encodes
\* speed * direction: the magnitude when the product is positive, the
\* magnitude plus 1024 when it is negative.
C20_RotationSpeedSigned ==
    \A t \in ThreadIds :
        LET p == pat[thr[t].pattern]
            signed_speed == p.speed * p.direction
        IN  (thr[t].pc = "exec_rx" /\ p.type = "rotation") =>
                thr[t].wire = IF signed_speed < 0 THEN (0 - signed_speed) + CwOffset
                              ELSE signed_speed

\* the servos a group sync write added to its batch, and those its frames carried
SyncAdded == {x[2] : x \in {y \in req.tx : y[1] = "addParam" /\ y[3]}}

SyncSent == {x[2] : x \in {y \in req.tx : y[1] = "txPacket"}}

SyncReturned == req.op \in SyncOps /\ req.pc = "ret"

C22_CycleCountedOncePerTurn ==
    [][\A q \in PatIds :
          (/\ pat[q].type = "sweep" /\ pat'[q].type = "sweep"
           /\ pat[q].cycle_count # Absent
           /\ pat'[q].cycle_count # pat[q].cycle_count)
          => /\ pat'[q].cycle_count = pat[q].cycle_count + 1
             /\ pat'[q].direction = 0 - pat[q].direction]_vars

\* C23: an iteration of a sweep worker whose setpoint the angle limits clamp
\* leaves the direction of the sweep inverted exactly once: after the clamp
\* the direction is the opposite of the one the iteration began with.
C23_ClampInvertsOnce ==
    \A t \in ThreadIds :
        LET p == pat[thr[t].pattern]
            c == _calculate_next_position(p)
            a == ApplyAngleConstraints(c.pattern, c.target)
        IN  (thr[t].pc = "calc" /\ p.type = "sweep" /\ a.target # c.target)
                => a.pattern.direction = 0 - p.direction

\* the Supervisor finishes a pass
PassEnds == sup.pc = "health" /\ sup'.pc = "scan"

\* the workers of id that are alive and have not been told to stop
DrivingWorkers(id) == {t \in LiveWorkers(id) : pat[thr[t].pattern].running}

\* C24: when a Supervisor pass ends, every record the pass found running
\* without a live thread, and that is still stored, has a live thread or is
\* not running any more; and a worker drives its servo only if the record
\* is running.
C24_SupervisorRepairs ==
    [][PassEnds =>
          \A id \in sup.repair :
              HasKey(movement_patterns', id) =>
                  /\ HasRunning(id)' => Alive(continuous_movement_threads[id])'
                  /\ (DrivingWorkers(id) # {})' => HasRunning(id)']_vars

\* a step of stop(id) or force_stop_all that takes id's thread handle or id's
\* record out of the dicts
Removes(id) ==
    /\ req.op \in {"stop", "force_stop"}
    /\ \/ /\ continuous_movement_threads[id] # NoRef
          /\ continuous_movement_threads'[id] = NoRef
       \/ HasKey(movement_patterns, id) /\ ~HasKey(movement_patterns', id)

\* C25: stop(id) and force_stop_all remove the record and the thread handle
\* of a servo only when no worker of that servo is alive.
C25_RemovedOnlyWhenDead ==
    [][\A id \in Servos : Removes(id) => LiveWorkers(id) = {}]_vars

\* worker t takes this step
StepOf(t) == thr'[t] # thr[t]

\* C26: a worker whose bus write did not return success does not advance
\* current_position in the step that follows the attempts, and counts the
\* iteration as a failure.
C26_FailedWriteKeepsPosition ==
    [][\A t \in ThreadIds :
          (thr[t].comm_result = "fail" /\ StepOf(t)) =>
              /\ pat'[thr[t].pattern].current_position
                     = pat[thr[t].pattern].current_position
              /\ thr[t].pc = "failed"]_vars

\* C27: a worker leaves its initialisation with current_position holding a
\* live position read from the servo or, the read having failed, the centre
\* position 2048.
C27_SeedIsLiveOrCentre ==
    [][\A t \in ThreadIds :
          (thr[t].pc = "init" /\ thr'[t].pc = "loop") =>
              pat'[thr[t].pattern].current_position \in LivePositions \cup {PosCenter}]_vars

\* the telemetry reply holds this value for some register
Reports(value) == \E i \in 1..Len(TelemetryFields) : <<TelemetryFields[i], value>> \in req.found

TelemetryReplied == req.op = "registers" /\ req.pc = "ret" /\ req.success

\* C28: a telemetry reply that holds "N/A" for a register reports the
\* communication status degraded, and one that reports it excellent holds
\* a value for every register.
C28_NotAvailableIsDegraded ==
    TelemetryReplied =>
        /\ Reports("N/A") => <<"communication_status", "degraded">> \in req.found
        /\ <<"communication_status", "excellent">> \in req.found
              => \A i \in 1..Len(TelemetryFields) :
                    <<TelemetryFields[i], "value">> \in req.found

\* the place of a strategy on the ladder: ping, torque cycle, baud sanity,
\* voltage probe, position hold
Rung(name) ==
    CASE name = "ping"           -> 1
      [] name = "torque_reset"   -> 2
      [] name = "baudrate_check" -> 3
      [] name = "voltage_reset"  -> 4
      [] name = "position_hold"  -> 5

\* the strategy on rung k was called and returned False
RungFailed(k) ==
    \E i \in 1..Len(req.calls) : Rung(req.calls[i][1]) = k /\ ~req.calls[i][2]

\* the strategy on rung k was called and never returned True
RungExhausted(k) ==
    /\ RungFailed(k)
    /\ \A i \in 1..Len(req.calls) : Rung(req.calls[i][1]) = k => ~req.calls[i][2]

LadderRuns == req.op = "recovery" /\ req.pc \in {"v_call", "v_ret"}

LadderReturned == req.op = "recovery" /\ req.pc = "v_ret"

\* C29: the recovery ladder calls its strategies in the order ping, torque
\* cycle, baud sanity, voltage probe, position hold; it calls a strategy only
\* after every earlier one has failed and calls none after a success; it
\* returns success when a strategy has succeeded and failure exactly when all
\* five have failed, each at every attempt the ladder gives it.
C29_LadderInOrder ==
    /\ LadderRuns =>
          \A i \in 1..Len(req.calls) :
              /\ \A j \in 1..(i - 1) :
                    /\ Rung(req.calls[j][1]) <= Rung(req.calls[i][1])
                    /\ ~req.calls[j][2]
              /\ \A k \in 1..(Rung(req.calls[i][1]) - 1) : RungFailed(k)
    /\ LadderReturned =>
          /\ req.result = "ok" <=> (req.calls # <<>> /\ req.calls[Len(req.calls)][2])
          /\ req.result = "fail" <=> \A k \in 1..5 : RungExhausted(k)

\* the ladder has returned success from a strategy other than the first,
\* after the earlier ones failed
C29_LaterRungSucceeds ==
    /\ LadderReturned /\ req.result = "ok"
    /\ Rung(req.calls[Len(req.calls)][1]) > 1

\* C30: when every pause and resume call has returned, no stored record has
\* immediate_stop or emergency_stop set while paused is false.
C30_StopFlagOnlyWhilePaused ==
    req.op = "none" =>
        \A i \in 1..Len(movement_patterns) :
            StopFlag(pat[movement_patterns[i][2]]) => pat[movement_patterns[i][2]].paused

\* C31: the position carried by the hold command of a pause or a stop is a
\* position that the call read from the servo with success.
C31_HoldAtPositionRead ==
    (req.op \in {"pause", "stop"} /\ req.hold # Absent) =>
        /\ <<"ReadPos", req.id, TRUE>> \in req.tx
        /\ req.hold \in LivePositions

\* the transactions that write a register of the servo
WriteKinds == {"write_torque_0", "write_torque"}

\* C32: a communication health check issues no write transaction on the bus.
C32_StatusOnlyReads ==
    req.op = "health" => \A x \in req.tx : x[1] \notin WriteKinds

\* C33: when change_servo_id has answered with a failure, every servo has the
\* id it had when the call began.
C33_FailedChangeKeepsId ==
    (req.op = "change_id" /\ req.pc = "ret" /\ ~req.success) => eeprom_id = hist.ids

\* C34: when set_servo_offset, set_angle_limits or set_dead_zone has answered
\* after unlocking the EEPROM of the servo, it has sent the servo a lock.
C34_UnlockedIsLocked ==
    (req.op \in EepromOps /\ req.pc = "ret" /\ <<"unlock", req.id, TRUE>> \in req.tx)
        => \E ok \in BOOLEAN : <<"lock", req.id, ok>> \in req.tx

\* C35: a start for servo id 0 on a connected controller, with no angle
\* constraints to apply, succeeds and stores a record for servo 0.
C35_IdZeroAccepted ==
    (req.op = "start" /\ req.pc = "ret" /\ req.id = 0 /\ is_connected) =>
        /\ req.result = "ok"
        /\ HasKey(movement_patterns, 0)

\* the speed word keeps the direction of the request
SignKept(speed, word) ==
    IF speed < 0 THEN CwOffset <= word /\ word <= SpeedWordMax
    ELSE 0 <= word /\ word <= SpeedMax

\* C36: the speed word of continuous rotation keeps the sign of the speed
\* asked for, in [0, 1023] for speed >= 0 and in [1024, 2047] for speed < 0,
\* in the rotation step of a worker and in a group speed sync write.
C36_SpeedWordKeepsSign ==
    /\ \A t \in ThreadIds :
          (thr[t].pc = "exec_rx" /\ pat[thr[t].pattern].type = "rotation") =>
              SignKept(pat[thr[t].pattern].speed, thr[t].wire)
    /\ req.op = "sync_speed" =>
          \A x \in req.tx : x[1] = "speed" => SignKept(x[2], x[3])

\* the Supervisor finishes the health check of the servo at the head of its list
HealthChecked == sup.pc = "health" /\ sup' # sup

\* C37: the health check the Supervisor makes for one servo leaves the
\* current_position and the running flag of every other servo's record as
\* they were.
C37_HealthCheckOwnRecord ==
    [][HealthChecked =>
          \A i \in 1..Len(movement_patterns) :
              movement_patterns[i][1] # Head(sup.active) =>
                  LET q == movement_patterns[i][2]
                  IN  /\ pat'[q].current_position = pat[q].current_position
                      /\ pat'[q].running = pat[q].running]_vars

\* C38: whenever no request is under way, or one has just returned, the
\* status that /status reports agrees with the controller: connected is
\* is_connected, with the port and baud rate of the connection while it is
\* open and none while it is not.
C38_StatusAgrees ==
    (req.op = "none" \/ req.pc = "ret") =>
        /\ connection_status.connected = is_connected
        /\ is_connected => /\ connection_status.port \in DefaultPorts
                           /\ connection_status.baudrate = DefaultBaud
        /\ ~is_connected => connection_status = NotConnected

\* C39: when start_periodic_monitoring has just returned success, the
\* monitoring thread is live and monitoring_active is true.
C39_StartedMonitorLives ==
    (req.op = "mon_start" /\ req.pc = "ret" /\ req.success) =>
        /\ monitoring_active
        /\ sup.pc # "none"

\* C40: a call of syncWrite or syncWriteContinuousSpeed is never left
\* waiting for group_sync_write_lock while it holds that lock itself, the
\* state from which it cannot return.
C40_SyncNeverBlocks ==
    ~(req.op \in SyncOps /\ req.pc = "y_init" /\ group_sync_write_lock)
=============================================================================
